---- MODULE Spec2Model ----
(***************************************************************************)
(* Model of the service orchestrator of harbor-core                        *)
(* (crates/core/src/orchestrator.rs, state.rs, health.rs, types.rs):       *)
(* dependency resolution (topo_order), process spawning with witness       *)
(* capture (spawn_service), and the three operations up, down and status   *)
(* acting on the state file and on the operating system's process table.   *)
(***************************************************************************)
EXTENDS Integers, Sequences, FiniteSets, TLC

(***************************************************************************)
(* Bounds of the model.                                                    *)
(***************************************************************************)
\* longest depends_on list of a service in the resolver specification
MaxDeps == 2
\* process ids the operating system hands out: 1..MaxPid
MaxPid == 2
\* the operating system's clock (start times) runs over 1..MaxClock
MaxClock == 2

\* largest explicit retries of a health check in the wait_ready specification
MaxRetries == 2
\* lines a service log can hold in the log specification
MaxLog == 2
\* longest State written and read back in the state file specification
MaxState == 2

ServiceNames == {"db", "backend", "frontend"}

Pids == 1..MaxPid

(***************************************************************************)
(* Small helpers on sequences.                                             *)
(***************************************************************************)
Range(s) == {s[i] : i \in 1..Len(s)}

SeqsUpTo(S, n) == UNION {[1..k -> S] : k \in 0..n}

\* sequences that list every element of S exactly once
Perms(S) == {p \in [1..Cardinality(S) -> S] : \A i, j \in 1..Cardinality(S) : p[i] = p[j] => i = j}

Count(s, x) == Cardinality({i \in 1..Len(s) : s[i] = x})

IndexOf(s, x) == CHOOSE i \in 1..Len(s) : s[i] = x

\* Option<T>: None is the empty sequence, Some(v) the sequence <<v>>
None == <<>>

Some(v) == <<v>>

(***************************************************************************)
(* types.rs: Service.  cwd is "none" (no override), "sub" (an existing     *)
(* directory under base_dir) or "missing" (a directory that does not       *)
(* exist); health_check is "absent" or the kind of the declared check.     *)
(***************************************************************************)
Service(n, deps, cwd, hc) == [name |-> n, depends_on |-> deps, cwd |-> cwd, health_check |-> hc]

NameSeq(services) == [i \in 1..Len(services) |-> services[i].name]

\* the last service of a name wins, as HashMap::insert in up's by_name
ByName(services, n) == services[CHOOSE i \in 1..Len(services) : services[i].name = n /\ \A j \in (i+1)..Len(services) : services[j].name # n]

(***************************************************************************)
(* topo_order (orchestrator.rs 11-47).                                     *)
(***************************************************************************)
RECURSIVE SumDepsDeclared(_, _, _)
\* the bug "dependencies on undeclared services are ignored"
SumDepsDeclared(services, n, i) == IF i > Len(services) THEN 0 ELSE (IF services[i].name = n THEN Len(SelectSeq(services[i].depends_on, LAMBDA d : \E j \in 1..Len(services) : services[j].name = d)) ELSE 0) + SumDepsDeclared(services, n, i + 1)

RECURSIVE SumDeps(_, _, _)
\* indeg[n]: one increment per depends_on entry of every service named n
SumDeps(services, n, i) == IF i > Len(services) THEN 0 ELSE (IF services[i].name = n THEN Len(services[i].depends_on) ELSE 0) + SumDeps(services, n, i + 1)

Indeg(services) == [n \in Range(NameSeq(services)) |-> SumDeps(services, n, 1)]

RECURSIVE Repeat(_, _)
Repeat(x, k) == IF k = 0 THEN <<>> ELSE <<x>> \o Repeat(x, k - 1)

RECURSIVE AdjFrom(_, _, _)
\* adj[d]: the dependants of d, pushed in the order of the services list, once per entry
AdjFrom(services, d, i) == IF i > Len(services) THEN <<>> ELSE Repeat(services[i].name, Count(services[i].depends_on, d)) \o AdjFrom(services, d, i + 1)

Adj(services, d) == AdjFrom(services, d, 1)

\* the bug "enqueue on every decrement" (the test *e == 0 dropped)
RelaxOneAlways(v, st) == IF v \in DOMAIN st.indeg THEN [indeg |-> [st.indeg EXCEPT ![v] = @ - 1], q |-> Append(st.q, v)] ELSE st

\* lines 34-39: decrement the in-degree of v, enqueue it when it reaches 0
RelaxOne(v, st) == IF v \in DOMAIN st.indeg THEN [indeg |-> [st.indeg EXCEPT ![v] = @ - 1], q |-> IF st.indeg[v] - 1 = 0 THEN Append(st.q, v) ELSE st.q] ELSE st

RECURSIVE Relax(_, _)
\* lines 32-41: the loop over the neighbours of the dequeued service
Relax(neigh, st) == IF neigh = <<>> THEN st ELSE Relax(Tail(neigh), RelaxOne(Head(neigh), st))

RECURSIVE KahnLoop(_, _, _, _)
\* lines 30-42: while let Some(u) = q.pop_front()
KahnLoop(services, q, res, indeg) == IF q = <<>> THEN res ELSE LET st == Relax(Adj(services, Head(q)), [indeg |-> indeg, q |-> Tail(q)]) IN KahnLoop(services, st.q, Append(res, Head(q)), st.indeg)

\* lines 23-27: the queue is seeded by iterating the HashMap indeg, whose
\* iteration order (iter, a permutation of its keys) is not specified
SeedQueue(services, iter) == SelectSeq(iter, LAMBDA k : Indeg(services)[k] = 0)

\* the bug "the length of the result is not checked"
TopoOrderUnchecked(services, iter) == [ok |-> TRUE, order |-> KahnLoop(services, SeedQueue(services, iter), <<>>, Indeg(services))]

\* the result of topo_order: Ok(order) or Err("cycle in dependencies")
TopoOrder(services, iter) == LET res == KahnLoop(services, SeedQueue(services, iter), <<>>, Indeg(services)) IN IF Len(res) # Cardinality(DOMAIN Indeg(services)) THEN [ok |-> FALSE, order |-> <<>>] ELSE [ok |-> TRUE, order |-> res]

IterOrders(services) == Perms(Range(NameSeq(services)))

(***************************************************************************)
(* Graph notions used to state the claims, defined independently of        *)
(* topo_order.                                                             *)
(***************************************************************************)
Declared(services) == Range(NameSeq(services))

UniqueNames(services) == \A i, j \in 1..Len(services) : services[i].name = services[j].name => i = j

DepsDeclared(services) == \A i \in 1..Len(services) : Range(services[i].depends_on) \subseteq Declared(services)

\* n depends directly on d
DependsOn(services, n, d) == \E i \in 1..Len(services) : services[i].name = n /\ d \in Range(services[i].depends_on)

RECURSIVE ReachIn(_, _, _, _)
\* d is reached from n along at most k depends_on edges (k >= 1)
ReachIn(services, n, d, k) == IF k = 0 THEN FALSE ELSE DependsOn(services, n, d) \/ \E m \in Declared(services) : DependsOn(services, n, m) /\ ReachIn(services, m, d, k - 1)

HasCycle(services) == \E n \in Declared(services) : ReachIn(services, n, n, Len(services))

IsTopological(services, order) == /\ Len(order) = Len(services)
                                  /\ \A n \in Declared(services) : Count(order, n) = 1
                                  /\ \A n \in Declared(services) : \A d \in Declared(services) : DependsOn(services, n, d) => IndexOf(order, d) < IndexOf(order, n)

(***************************************************************************)
(* State.                                                                  *)
(*   pc        position of the control process: "idle" between             *)
(*             invocations, or the step of the running up / down           *)
(*   cfg       services of the WorkspaceConfig given to the running up     *)
(*   resolved  result of topo_order in the running (or last) up            *)
(*   todo      names of the resolved order not yet started                 *)
(*   running   up's Vec<RunningService>                                    *)
(*   cur       the child being spawned / health-checked                    *)
(*   proc      the operating system's process table                        *)
(*   clock     the operating system's clock, the source of start times     *)
(*   file      the state file at state_path                                *)
(*   snap      the process table as read by down's refresh_processes       *)
(*   dtodo     RunningService entries down has still to visit              *)
(*   result    what the last invocation returned                           *)
(*   workDir   the working directory of the control process running up     *)
(*   logs      the content of <logs_dir>/<service>.out.log per service: the *)
(*             lines written so far (a missing file has none)              *)
(* History (not program state, recorded to state the claims):              *)
(*   spawnLog  the children launched by the running up, in order: name,    *)
(*             process id and the start time the system gave them          *)
(*   hcDone    services whose health check finished in that up             *)
(*   timedOut  services whose health check ended TimedOut in that up       *)
(*   fileAtStart the state file when the invocation began                  *)
(*   writes    number of write_state calls of that up that succeeded       *)
(*   termReq   processes the running (or last) down asked to terminate     *)
(*   downLog   per visited RunningService: what down saw and did           *)
(* wait_ready (followed on its own, one call at a time):                   *)
(*   hcheck    the HealthCheck given to the running wait_ready             *)
(*   elapsed   milliseconds since wait_ready took its starting Instant     *)
(*   attempts  iterations of the retry loop completed so far               *)
(*   made      (history) calls of attempt made so far                      *)
(*   last      (history) the last attempt: when it began, what the probed  *)
(*             service answered, and its result                            *)
(*   watching  TrayLogic.watching, the flag the watcher threads poll       *)
(*   handle    TrayLogic.handle, the join handle of the last thread        *)
(*   watchers  the threads spawned by start_watching: where each is in     *)
(*             watch_polling, and (history) whether stop_watching was      *)
(*             called while it ran and whether it has since found the      *)
(*             flag set again                                              *)
(*   lastCall  (history) what the last call on the TrayLogic did           *)
(*   watcher_flag, watcher_handle, service_start_time                      *)
(*             the fields of the desktop app's AppState                    *)
(*   service_enabled, rules                                                *)
(*             AppState.config: its service_enabled and its rule list      *)
(*   flags     the AtomicBool flags handed to watcher threads              *)
(*   svcThreads the app's watcher threads: where each is in watch_polling, *)
(*             its flag, its clone of the rule list, and (history)         *)
(*             whether internal_stop_service has stopped it                *)
(*   rc        the rule command in progress and where it is                *)
(*   svcHist   (history) what the last service call and the last rule      *)
(*             command did, and the last get_service_status answer         *)
(*   fsys      the files of the download and target directories            *)
(*   pass      the organize_once passes in progress                        *)
(*   moved     (history) the moves made by the passes                      *)
(***************************************************************************)
VARIABLES pc, cfg, resolved, todo, running, cur, proc, clock, file, snap, dtodo, result, spawnLog, hcDone, timedOut, fileAtStart, writes, termReq, downLog, hcheck, elapsed, attempts, made, last, workDir, logs, watching, handle, watchers, lastCall, watcher_flag, watcher_handle, service_start_time, service_enabled, flags, svcThreads, rules, rc, svcHist, fsys, pass, moved

progVars == <<pc, cfg, resolved, todo, running, cur, proc, clock, file, snap, dtodo, result, workDir, logs>>

histVars == <<spawnLog, hcDone, timedOut, fileAtStart, writes, termReq, downLog>>

healthVars == <<hcheck, elapsed, attempts, made, last>>

trayVars == <<watching, handle, watchers, lastCall>>

appVars == <<watcher_flag, watcher_handle, service_start_time, service_enabled, flags, svcThreads, rules, rc, svcHist>>

orgVars == <<fsys, pass, moved>>

vars == <<progVars, histVars, healthVars, trayVars, appVars, orgVars>>

(***************************************************************************)
(* The process table.  A slot is free, runs a process, or holds a process  *)
(* that has exited while the control process still owns its Child handle   *)
(* (its id cannot be handed out again before the handle is dropped).       *)
(* own is history, not seen by the program: "new" a process spawned by the *)
(* running up, "cur" a process spawned by the up that wrote the present    *)
(* state file, "old" a process spawned by an up whose state file a later   *)
(* up has replaced, "other" any other process (an unrelated one, or a      *)
(* service of an up whose state file is gone or was never written).        *)
(***************************************************************************)
NoProc == [live |-> "free", st |-> 0, own |-> "other"]

NewProc(t, o) == [live |-> "run", st |-> t, own |-> o]

\* the history field own when a state file is written by the running up
Adopt(table) == [p \in DOMAIN table |-> IF table[p].live = "free" THEN table[p] ELSE [table[p] EXCEPT !.own = IF @ = "new" THEN "cur" ELSE IF @ \in {"cur", "old"} THEN "old" ELSE "other"]]

\* the history field own when the running up ends without writing
Orphan(table) == [p \in DOMAIN table |-> IF table[p].own = "new" THEN [table[p] EXCEPT !.own = "other"] ELSE table[p]]

\* the history field own when the state file is removed or destroyed
Forget(table) == [p \in DOMAIN table |-> IF table[p].live = "free" THEN table[p] ELSE [table[p] EXCEPT !.own = IF @ = "old" THEN "old" ELSE "other"]]

FreePids == {p \in Pids : proc[p].live = "free"}

(***************************************************************************)
(* state.rs: RunningService, State, read_state, write_state.  The two log  *)
(* paths are functions of the service name (orchestrator.rs 50-51).        *)
(***************************************************************************)
OutLog(n) == <<"logs", n, "out.log">>

ErrLog(n) == <<"logs", n, "err.log">>

RunningService(n, p, t) == [name |-> n, pid |-> p, start_time |-> t, stdout_log |-> OutLog(n), stderr_log |-> ErrLog(n)]

AbsentFile == [kind |-> "absent", services |-> <<>>]

CorruptFile == [kind |-> "corrupt", services |-> <<>>]

StateFile(services) == [kind |-> "state", services |-> services]

\* Result<Option<State>> of read_state
ReadOk(st) == [ok |-> TRUE, state |-> st]

ReadErr == [ok |-> FALSE, state |-> None]

(***************************************************************************)
(* The JSON text of a state file, as the tree serde_json writes and reads:  *)
(* null, numbers, strings, arrays and objects (records keyed by field       *)
(* name).                                                                   *)
(***************************************************************************)
JNull == [t |-> "null", v |-> <<>>]

JNum(n) == [t |-> "num", v |-> n]

JStr(x) == [t |-> "str", v |-> x]

JArr(a) == [t |-> "arr", v |-> a]

JObj(o) == [t |-> "obj", v |-> o]

JsonFile(j) == [kind |-> "json", content |-> j]

\* a path component that is not valid UTF-8
InvalidUtf8 == "<invalid-utf8>"

\* Serialize for Path: a path serializes as a string only when it is UTF-8
IsUtf8(path) == \A i \in 1..Len(path) : path[i] # InvalidUtf8

\* derive(Serialize) for RunningService: one key per field, None as null
SerializeService(rs) == JObj([name |-> JStr(rs.name), pid |-> JNum(rs.pid), start_time |-> IF rs.start_time = None THEN JNull ELSE JNum(rs.start_time[1]), stdout_log |-> JStr(rs.stdout_log), stderr_log |-> JStr(rs.stderr_log)])

Serializable(services) == \A i \in 1..Len(services) : IsUtf8(services[i].stdout_log) /\ IsUtf8(services[i].stderr_log)

\* serde_json::to_string_pretty(state) (state.rs 33)
Serialize(services) == JObj([services |-> JArr([i \in 1..Len(services) |-> SerializeService(services[i])])])

\* the bug "a null start_time is read as the start time 0"
ParseStartTimeZero(o) == IF "start_time" \notin DOMAIN o THEN [ok |-> TRUE, val |-> None] ELSE IF o.start_time.t = "null" THEN [ok |-> TRUE, val |-> Some(0)] ELSE IF o.start_time.t = "num" /\ o.start_time.v >= 0 THEN [ok |-> TRUE, val |-> Some(o.start_time.v)] ELSE [ok |-> FALSE, val |-> None]

\* start_time: Option<u64> with #[serde(default)] (state.rs 10-11): a
\* missing key and null both give None, a number gives Some
ParseStartTime(o) == IF "start_time" \notin DOMAIN o THEN [ok |-> TRUE, val |-> None] ELSE IF o.start_time.t = "null" THEN [ok |-> TRUE, val |-> None] ELSE IF o.start_time.t = "num" /\ o.start_time.v >= 0 THEN [ok |-> TRUE, val |-> Some(o.start_time.v)] ELSE [ok |-> FALSE, val |-> None]

\* derive(Deserialize) for RunningService: the four other keys are required
ParsesAsService(j) == /\ j.t = "obj"
                      /\ {"name", "pid", "stdout_log", "stderr_log"} \subseteq DOMAIN j.v
                      /\ j.v.name.t = "str"
                      /\ j.v.pid.t = "num"
                      /\ j.v.stdout_log.t = "str"
                      /\ j.v.stderr_log.t = "str"
                      /\ ParseStartTime(j.v).ok

DeserializeService(j) == [name |-> j.v.name.v, pid |-> j.v.pid.v, start_time |-> ParseStartTime(j.v).val, stdout_log |-> j.v.stdout_log.v, stderr_log |-> j.v.stderr_log.v]

\* serde_json::from_str::<State>(content) (state.rs 27)
Deserialize(j) == IF /\ j.t = "obj"
                     /\ "services" \in DOMAIN j.v
                     /\ j.v.services.t = "arr"
                     /\ \A i \in 1..Len(j.v.services.v) : ParsesAsService(j.v.services.v[i])
                  THEN ReadOk(Some([i \in 1..Len(j.v.services.v) |-> DeserializeService(j.v.services.v[i])]))
                  ELSE ReadErr

\* the bug "a missing file is an error"
ReadStateAbsentFails(f) == IF f.kind = "state" THEN ReadOk(Some(f.services)) ELSE ReadErr

\* the bug "an unparseable file is an empty State"
ReadStateLenient(f) == IF f.kind = "absent" THEN ReadOk(None) ELSE ReadOk(Some(f.services))

\* read_state (state.rs 21-29): Ok(None) when no file exists, the parsed
\* State when its content parses, an error otherwise
ReadState(f) == IF f.kind = "absent" THEN ReadOk(None) ELSE IF f.kind = "state" THEN ReadOk(Some(f.services)) ELSE IF f.kind = "json" THEN Deserialize(f.content) ELSE ReadErr

NoCur == [name |-> "-", pid |-> 0, start_time |-> None]

NoResult == [op |-> "none", ok |-> TRUE, err |-> "none", state |-> <<>>, report |-> <<>>]

UpOk(st) == [op |-> "up", ok |-> TRUE, err |-> "none", state |-> st, report |-> <<>>]

UpErr(e) == [op |-> "up", ok |-> FALSE, err |-> e, state |-> <<>>, report |-> <<>>]

DownOk == [op |-> "down", ok |-> TRUE, err |-> "none", state |-> <<>>, report |-> <<>>]

DownErr == [op |-> "down", ok |-> FALSE, err |-> "parse", state |-> <<>>, report |-> <<>>]

StatusOk(rep) == [op |-> "status", ok |-> TRUE, err |-> "none", state |-> <<>>, report |-> rep]

StatusErr == [op |-> "status", ok |-> FALSE, err |-> "parse", state |-> <<>>, report |-> <<>>]

(***************************************************************************)
(* Directories.  base_dir is the workspace given to up; the control        *)
(* process runs in it or in some other directory.                          *)
(***************************************************************************)
BaseDir == <<"ws">>

NoDir == <<>>

WorkDirs == {BaseDir, <<"home">>}

\* Path::join with a relative path
Join(base, rel) == Append(base, rel)

\* spawn_service lines 63-66: current_dir is set only for a service with a
\* cwd override; any other child inherits the directory of the control process
ChildDir(s, wd) == IF s.cwd # "none" THEN Join(BaseDir, s.cwd) ELSE wd

(***************************************************************************)
(* Inputs: the configurations given to up.                                 *)
(***************************************************************************)
\* every dependency shape of the three services with at most one
\* dependency each (chains, self-dependencies, cycles of two and three)
DepConfigs == {<<Service("db", d1, "none", "absent"), Service("backend", d2, "none", "absent"), Service("frontend", d3, "none", "absent")>> : d1 \in SeqsUpTo(ServiceNames, 1), d2 \in SeqsUpTo(ServiceNames, 1), d3 \in SeqsUpTo(ServiceNames, 1)}

\* one or two services, the second depending on the first or not, with
\* every combination of working directory override and health check
OptionConfigs == {<<Service("db", <<>>, c1, h1)>> : c1 \in {"none", "missing"}, h1 \in {"absent", "tcp"}} \cup {<<Service("db", <<>>, c1, h1), Service("backend", d2, c2, h2)>> : c1 \in {"none", "missing"}, h1 \in {"absent", "tcp"}, d2 \in {<<>>, <<"db">>}, c2 \in {"sub", "missing"}, h2 \in {"absent", "none"}}

UpConfigs == DepConfigs \cup OptionConfigs

\* the configurations of the life-cycle specification: one service with a
\* health check, or two independent services without
ProcConfigs == {<<Service("db", <<>>, "none", "tcp")>>, <<Service("db", <<>>, "none", "absent"), Service("backend", <<>>, "none", "absent")>>}

(***************************************************************************)
(* health.rs: wait_ready (69-84) as seen by up: with the default retries   *)
(* an attempt of kind none succeeds at once; the other kinds end Ready or  *)
(* TimedOut as the probed service decides.                                 *)
(***************************************************************************)
WaitReady(hc) == IF hc = "none" THEN {"Ready"} ELSE {"Ready", "TimedOut"}

(***************************************************************************)
(* types.rs 20-27: HealthCheck; every field but kind is an Option.         *)
(***************************************************************************)
HealthCheck(kind, command, url, tcp_port, timeout_ms, retries) == [kind |-> kind, command |-> command, url |-> url, tcp_port |-> tcp_port, timeout_ms |-> timeout_ms, retries |-> retries]

UnwrapOr(o, d) == IF o = None THEN d ELSE o[1]

Min(a, b) == IF a < b THEN a ELSE b

\* health.rs 78: thread::sleep(Duration::from_millis(300))
SleepMs == 300

\* health.rs 70: hc.retries.unwrap_or(10)
DefaultRetries == 10

\* health.rs 71: hc.timeout_ms.unwrap_or(5000)
DefaultTimeoutMs == 5000

\* health.rs 14: the timeout of the http request
DefaultHttpTimeoutMs == 5000

\* health.rs 33: the timeout of the tcp connect
DefaultTcpTimeoutMs == 2000

Retries(h) == UnwrapOr(h.retries, DefaultRetries)

Timeout(h) == UnwrapOr(h.timeout_ms, DefaultTimeoutMs)

\* the timeout of one http request or one tcp connect (lines 14 and 33)
PerAttemptTimeout(h) == IF h.kind = "http" THEN UnwrapOr(h.timeout_ms, DefaultHttpTimeoutMs) ELSE UnwrapOr(h.timeout_ms, DefaultTcpTimeoutMs)

(***************************************************************************)
(* What the probed service answers to one attempt:                         *)
(*   reached  http: a response is sent; tcp: the port accepts the          *)
(*            connection; command: the shell could be launched             *)
(*   code     http: the status of the response; command: the exit status   *)
(*   took     milliseconds until the response / accept / exit              *)
(***************************************************************************)
Answer(reached, code, took) == [reached |-> reached, code |-> code, took |-> took]

NoAnswer == Answer(FALSE, 0, 0)

HttpStatuses == {199, 200, 304, 399, 400, 503}

Latencies == {0, 100, 700, 3000, 6000}

\* a command may run for any time: no timeout applies to it (lines 47-59)
RunTimes == {0, 100, 60000}

Answers(h) == IF h.kind = "http" /\ h.url # None THEN {NoAnswer} \cup {Answer(TRUE, c, d) : c \in HttpStatuses, d \in Latencies}
              ELSE IF h.kind = "tcp" /\ h.tcp_port # None THEN {NoAnswer} \cup {Answer(TRUE, 0, d) : d \in Latencies}
              ELSE IF h.kind = "command" THEN {NoAnswer} \cup {Answer(TRUE, c, d) : c \in {0, 1}, d \in RunTimes}
              ELSE {NoAnswer}

Passed(d) == [ok |-> TRUE, took |-> d]

Failed(d) == [ok |-> FALSE, took |-> d]

\* the bug "every http response passes, whatever its status"
AttemptAnyResponse(h, ans) == IF h.kind = "none" THEN Passed(0)
                              ELSE IF h.kind = "http" THEN (IF ans.reached /\ ans.took < PerAttemptTimeout(h) THEN Passed(ans.took) ELSE Failed(Min(ans.took, PerAttemptTimeout(h))))
                              ELSE IF h.kind = "tcp" THEN (IF ans.reached /\ ans.took < PerAttemptTimeout(h) THEN Passed(ans.took) ELSE Failed(Min(ans.took, PerAttemptTimeout(h))))
                              ELSE IF UnwrapOr(h.command, "") = "" THEN Failed(0)
                              ELSE IF ~ans.reached THEN Failed(0)
                              ELSE IF ans.code = 0 THEN Passed(ans.took) ELSE Failed(ans.took)

\* attempt (health.rs 8-67): the result of one attempt and the time it takes
Attempt(h, ans) == IF h.kind = "none" THEN Passed(0)
                   ELSE IF h.kind = "http" THEN (IF ans.reached /\ ans.took < PerAttemptTimeout(h) THEN (IF ans.code \in 200..399 THEN Passed(ans.took) ELSE Failed(ans.took)) ELSE Failed(Min(ans.took, PerAttemptTimeout(h))))
                   ELSE IF h.kind = "tcp" THEN (IF ans.reached /\ ans.took < PerAttemptTimeout(h) THEN Passed(ans.took) ELSE Failed(Min(ans.took, PerAttemptTimeout(h))))
                   ELSE IF UnwrapOr(h.command, "") = "" THEN Failed(0)
                   ELSE IF ~ans.reached THEN Failed(0)
                   ELSE IF ans.code = 0 THEN Passed(ans.took) ELSE Failed(ans.took)

NoCheck == HealthCheck("none", None, None, None, None, None)

NoAttempt == [begin |-> 0, ans |-> NoAnswer, ok |-> FALSE]

HealthIdle == /\ hcheck = NoCheck
              /\ elapsed = 0
              /\ attempts = 0
              /\ made = 0
              /\ last = NoAttempt

WaitOk == [op |-> "wait_ready", ok |-> TRUE, err |-> "none", state |-> <<>>, report |-> <<>>]

WaitErr == [op |-> "wait_ready", ok |-> FALSE, err |-> "not ready", state |-> <<>>, report |-> <<>>]

\* the bug "one attempt more than retries"
MayAttemptInclusive(i, retries) == i <= retries

\* line 73: for _ in 0..retries
MayAttempt(i, retries) == i < retries

\* the bug "the ceiling is never looked at"
PastCeilingNever(e, timeout_ms) == FALSE

\* line 79: start.elapsed() > Duration::from_millis(timeout_ms * 2)
PastCeiling(e, timeout_ms) == e > timeout_ms * 2

\* lines 73-82, one iteration of the loop: attempt; return Ok on success;
\* otherwise sleep 300 ms, then leave the loop when the ceiling is passed
WaitAttempt == /\ pc = "wr_loop"
               /\ MayAttempt(attempts, Retries(hcheck))
               /\ \E ans \in Answers(hcheck) :
                    LET r == Attempt(hcheck, ans) IN
                      /\ made' = made + 1
                      /\ last' = [begin |-> elapsed, ans |-> ans, ok |-> r.ok]
                      /\ IF r.ok
                         THEN /\ elapsed' = elapsed + r.took
                              /\ pc' = "wr_done"
                              /\ result' = WaitOk
                              /\ UNCHANGED attempts
                         ELSE /\ elapsed' = elapsed + r.took + SleepMs
                              /\ attempts' = attempts + 1
                              /\ IF PastCeiling(elapsed + r.took + SleepMs, Timeout(hcheck))
                                 THEN /\ pc' = "wr_done"
                                      /\ result' = WaitErr
                                 ELSE UNCHANGED <<pc, result>>
               /\ UNCHANGED <<cfg, resolved, todo, running, cur, proc, clock, file, snap, dtodo, histVars, hcheck, workDir, logs, trayVars, appVars, orgVars>>

\* lines 73 and 83: the loop has run retries times: bail!("not ready")
WaitExhausted == /\ pc = "wr_loop"
                 /\ ~MayAttempt(attempts, Retries(hcheck))
                 /\ pc' = "wr_done"
                 /\ result' = WaitErr
                 /\ UNCHANGED <<cfg, resolved, todo, running, cur, proc, clock, file, snap, dtodo, histVars, healthVars, workDir, logs, trayVars, appVars, orgVars>>

(***************************************************************************)
(* up (orchestrator.rs 90-115).                                            *)
(***************************************************************************)
\* lines 95-103: create the logs directory, resolve the order
UpBegin(configs) == /\ pc = "idle"
                    /\ \E c \in configs : \E iter \in IterOrders(c) :
                         LET r == TopoOrder(c, iter) IN
                           /\ cfg' = c
                           /\ resolved' = r
                           /\ todo' = r.order
                           /\ pc' = IF ~r.ok THEN "done" ELSE IF r.order = <<>> THEN "up_write" ELSE "up_spawn"
                           /\ result' = IF ~r.ok THEN UpErr("cycle") ELSE NoResult
                    /\ fileAtStart' = file
                    /\ workDir' \in WorkDirs
                    /\ UNCHANGED <<running, cur, proc, clock, file, snap, dtodo, spawnLog, hcDone, timedOut, writes, termReq, downLog, healthVars, logs, trayVars, appVars, orgVars>>

(***************************************************************************)
(* config.rs and the up command of the cli (main.rs 121-135).              *)
(***************************************************************************)
UnreadableConfig == [kind |-> "unreadable", services |-> <<>>]

GarbageConfig == [kind |-> "garbage", services |-> <<>>]

ConfigOf(services) == [kind |-> "config", services |-> services]

\* load_config (config.rs 7-36): the file is read and parsed, or an error
LoadConfig(f) == IF f.kind = "config" THEN [ok |-> TRUE, err |-> "none", services |-> f.services] ELSE [ok |-> FALSE, err |-> IF f.kind = "unreadable" THEN "read" ELSE "parse", services |-> <<>>]

RECURSIVE ValidateFromAdjacent(_, _, _)
\* the bug "a name is compared with the name before it only"
ValidateFromAdjacent(services, i, names) == IF i > Len(services) THEN TRUE ELSE IF i > 1 /\ services[i].name = services[i - 1].name THEN FALSE ELSE ValidateFromAdjacent(services, i + 1, names)

RECURSIVE ValidateFrom(_, _, _)
\* config.rs 40-44: insert each name into the HashSet, bail on the first
\* name that is already in it
ValidateFrom(services, i, names) == IF i > Len(services) THEN TRUE ELSE IF services[i].name \in names THEN FALSE ELSE ValidateFrom(services, i + 1, names \cup {services[i].name})

\* validate_config (config.rs 38-46): TRUE for Ok(())
ValidateConfig(services) == ValidateFrom(services, 1, {})

\* main.rs 126-132: load_config?, validate_config?, then up
CliUp(files) == /\ pc = "idle"
                /\ \E f \in files :
                     LET l == LoadConfig(f) IN
                       IF l.ok /\ ValidateConfig(l.services)
                       THEN UpBegin({l.services})
                       ELSE /\ pc' = "done"
                            /\ cfg' = l.services
                            /\ result' = UpErr(IF l.ok THEN "duplicate" ELSE l.err)
                            /\ fileAtStart' = file
                            /\ workDir' \in WorkDirs
                            /\ UNCHANGED <<resolved, todo, running, cur, proc, clock, file, snap, dtodo, spawnLog, hcDone, timedOut, writes, termReq, downLog, healthVars, logs, trayVars, appVars, orgVars>>

\* the bug "persist what was started so far before returning the error"
SpawnFailsPersisting == /\ pc' = "done"
                        /\ result' = UpErr("spawn")
                        /\ file' = StateFile(running)
                        /\ proc' = Adopt(proc)
                        /\ UNCHANGED todo

\* line 106 with spawn_service returning Err: up returns the error at once,
\* the services already spawned keep running and nothing is written
SpawnFails == /\ pc' = "done"
              /\ result' = UpErr("spawn")
              /\ proc' = Orphan(proc)
              /\ UNCHANGED <<todo, file>>

NoLogs == [n \in ServiceNames |-> <<>>]

\* the bug "the log is opened with truncate"
OpenLogTruncate(content) == <<>>

\* spawn_service lines 50-53: File::options().create(true).append(true):
\* a missing file is created empty, an existing one keeps its content
OpenLog(content) == content

\* spawn_service lines 50-75: the command is launched in base_dir joined
\* with cwd; the launch fails when that directory does not exist or the
\* operating system cannot create a process; the child gets a free id and
\* the current time as start time
UpSpawn == /\ pc = "up_spawn"
           /\ LET s == ByName(cfg, Head(todo)) IN
                \/ /\ s.cwd = "missing" \/ FreePids = {}
                   /\ SpawnFails
                   /\ UNCHANGED <<cur, spawnLog>>
                \/ /\ s.cwd # "missing"
                   /\ \E p \in FreePids :
                        /\ proc' = [proc EXCEPT ![p] = NewProc(clock, "new")]
                        /\ cur' = [name |-> s.name, pid |-> p, start_time |-> None]
                        /\ spawnLog' = Append(spawnLog, [name |-> s.name, pid |-> p, st |-> clock, dir |-> ChildDir(s, workDir)])
                   /\ pc' = "up_witness"
                   /\ UNCHANGED <<todo, result, file>>
           /\ logs' = [logs EXCEPT ![Head(todo)] = OpenLog(@)]
           /\ UNCHANGED <<cfg, resolved, running, clock, snap, dtodo, hcDone, timedOut, fileAtStart, writes, termReq, downLog, healthVars, workDir, trayVars, appVars, orgVars>>

\* lines 76-80: what the process table answers for the child's id: the
\* start time of a running child; for a child that has already exited,
\* its start time where the table still lists it, nothing where it does not
WitnessOf(p) == IF proc[p].live = "run" THEN {Some(proc[p].st)} ELSE {Some(proc[p].st), None}

\* the bug "insert at the front"
PushFront(rs) == /\ running' = <<rs>> \o running
                 /\ todo' = Tail(todo)
                 /\ cur' = NoCur
                 /\ pc' = IF Tail(todo) = <<>> THEN "up_write" ELSE "up_spawn"

\* lines 110-111: push the RunningService and go on with the next name
Push(rs) == /\ running' = Append(running, rs)
            /\ todo' = Tail(todo)
            /\ cur' = NoCur
            /\ pc' = IF Tail(todo) = <<>> THEN "up_write" ELSE "up_spawn"

\* the bug "every service is health-checked, declared or not"
NeedsCheckAlways(s) == TRUE

\* the bug "the health check is not run"
NeedsCheckNever(s) == FALSE

\* line 107: if let Some(hc) = &s.health_check
NeedsCheck(s) == s.health_check # "absent"

\* spawn_service lines 75-87 and up lines 107-110: query the start time,
\* drop the Child handle, return the RunningService
UpWitness == /\ pc = "up_witness"
             /\ \E t \in WitnessOf(cur.pid) :
                  LET rs == RunningService(cur.name, cur.pid, t) IN
                    IF NeedsCheck(ByName(cfg, cur.name))
                    THEN /\ cur' = [cur EXCEPT !.start_time = t]
                         /\ pc' = "up_health"
                         /\ UNCHANGED <<running, todo>>
                    ELSE Push(rs)
             /\ proc' = IF proc[cur.pid].live = "exited" THEN [proc EXCEPT ![cur.pid] = NoProc] ELSE proc
             /\ UNCHANGED <<cfg, resolved, clock, file, snap, dtodo, result, histVars, healthVars, workDir, logs, trayVars, appVars, orgVars>>

\* the bug "a failed health check aborts up" (wait_ready(hc)? instead of let _ =)
HealthResultPropagated(r) == IF r = "TimedOut" THEN /\ pc' = "done"
                                                     /\ result' = UpErr("health")
                                                     /\ cur' = NoCur
                                                     /\ UNCHANGED <<running, todo>>
                             ELSE /\ Push(RunningService(cur.name, cur.pid, cur.start_time))
                                  /\ UNCHANGED result

\* lines 107-110: let _ = wait_ready(hc); running.push(rs)
HealthResult(r) == /\ Push(RunningService(cur.name, cur.pid, cur.start_time))
                   /\ UNCHANGED result

UpHealth == /\ pc = "up_health"
            /\ \E r \in WaitReady(ByName(cfg, cur.name).health_check) :
                 /\ HealthResult(r)
                 /\ timedOut' = IF r = "TimedOut" THEN timedOut \cup {cur.name} ELSE timedOut
            /\ hcDone' = hcDone \cup {cur.name}
            /\ UNCHANGED <<cfg, resolved, proc, clock, file, snap, dtodo, spawnLog, fileAtStart, writes, termReq, downLog, healthVars, workDir, logs, trayVars, appVars, orgVars>>

\* the bug "up adds its entries to the ones the state file holds"
WriteStateAppending(f, r) == IF f.kind = "state" THEN StateFile(f.services \o r) ELSE StateFile(r)

\* write_state (state.rs 31-36): fs::write replaces the content of the file,
\* whatever it held, by the serialized State
WriteStateOver(f, r) == StateFile(r)

\* lines 112-114 and write_state (state.rs 31-36): the file is replaced by
\* the serialized State; a failed write leaves the old content or a
\* truncated, unparseable file
UpWrite == /\ pc = "up_write"
           /\ \/ /\ file' = WriteStateOver(file, running)
                 /\ writes' = writes + 1
                 /\ result' = UpOk(running)
                 /\ proc' = Adopt(proc)
              \/ /\ file' = file
                 /\ result' = UpErr("write")
                 /\ proc' = Orphan(proc)
                 /\ UNCHANGED writes
              \/ /\ file' = CorruptFile
                 /\ result' = UpErr("write")
                 /\ proc' = Forget(proc)
                 /\ UNCHANGED writes
           /\ pc' = "done"
           /\ UNCHANGED <<cfg, resolved, todo, running, cur, clock, snap, dtodo, spawnLog, hcDone, timedOut, fileAtStart, termReq, downLog, healthVars, workDir, logs, trayVars, appVars, orgVars>>

(***************************************************************************)
(* down (orchestrator.rs 117-138).                                         *)
(***************************************************************************)
\* the bug "kill by id alone": the start time is not compared
KillMatchesPidOnly(s, table) == table[s.pid].live = "run"

\* lines 127-133 on the refreshed table: a process with the stored id is
\* found and, when a start time is recorded, its start time is the recorded one
KillMatches(s, table) == /\ table[s.pid].live = "run"
                         /\ IF s.start_time # None THEN table[s.pid].st = s.start_time[1] ELSE TRUE

\* lines 118-125: read the state file, then read the process table once
DownBegin == /\ pc = "idle"
             /\ fileAtStart' = file
             /\ LET st == ReadState(file) IN
                  IF ~st.ok
                  THEN /\ pc' = "done"
                       /\ result' = DownErr
                       /\ UNCHANGED <<snap, dtodo>>
                  ELSE IF st.state = None
                  THEN /\ pc' = "done"
                       /\ result' = DownOk
                       /\ UNCHANGED <<snap, dtodo>>
                  ELSE /\ snap' = proc
                       /\ dtodo' = st.state[1]
                       /\ pc' = "down_kill"
                       /\ UNCHANGED result
             /\ UNCHANGED <<cfg, resolved, todo, running, cur, proc, clock, file, spawnLog, hcDone, timedOut, writes, termReq, downLog, healthVars, workDir, logs, trayVars, appVars, orgVars>>

\* lines 126-135, one iteration: proc_.kill() signals the stored id, and
\* reaches whatever process holds that id when the signal is sent
DownKill == /\ pc = "down_kill"
            /\ dtodo # <<>>
            /\ LET s == Head(dtodo)
                   hit == KillMatches(s, snap)
                   now == proc[s.pid] IN
                 /\ proc' = IF hit /\ now.live = "run" THEN [proc EXCEPT ![s.pid] = NoProc] ELSE proc
                 /\ termReq' = IF hit /\ now.live = "run" THEN termReq \cup {[pid |-> s.pid, st |-> now.st, own |-> now.own]} ELSE termReq
                 /\ downLog' = Append(downLog, [rs |-> s, seen |-> snap[s.pid], req |-> hit])
            /\ dtodo' = Tail(dtodo)
            /\ UNCHANGED <<pc, cfg, resolved, todo, running, cur, clock, file, snap, result, spawnLog, hcDone, timedOut, fileAtStart, writes, healthVars, workDir, logs, trayVars, appVars, orgVars>>

\* lines 136-137: remove the state file, ignoring a failure to remove it,
\* and return
DownRemove == /\ pc = "down_kill"
              /\ dtodo = <<>>
              /\ \/ /\ file' = AbsentFile
                    /\ proc' = Forget(proc)
                 \/ UNCHANGED <<file, proc>>
              /\ pc' = "done"
              /\ result' = DownOk
              /\ UNCHANGED <<cfg, resolved, todo, running, cur, clock, snap, dtodo, histVars, healthVars, workDir, logs, trayVars, appVars, orgVars>>

(***************************************************************************)
(* status (orchestrator.rs 140-161).                                       *)
(***************************************************************************)
\* the bug "alive whenever the id is live"
AlivePidOnly(s, table) == table[s.pid].live = "run"

\* the bug "an entry without start_time is never alive"
AliveNeedsWitness(s, table) == /\ table[s.pid].live = "run"
                               /\ IF s.start_time # None THEN table[s.pid].st = s.start_time[1] ELSE FALSE

\* lines 147-156
Alive(s, table) == /\ table[s.pid].live = "run"
                   /\ IF s.start_time # None THEN table[s.pid].st = s.start_time[1] ELSE TRUE

\* the bug "entries whose process is gone are left out of the report"
ReportAliveOnly(services, table) == SelectSeq([i \in 1..Len(services) |-> <<services[i].name, services[i].pid, Alive(services[i], table)>>], LAMBDA e : e[3])

\* lines 143-158: one (name, pid, alive) entry per stored service, in order
Report(services, table) == [i \in 1..Len(services) |-> <<services[i].name, services[i].pid, Alive(services[i], table)>>]

\* the bug "status drops the entries it finds dead from the state file"
StatusDropsDead == /\ pc = "idle"
                   /\ fileAtStart' = file
                   /\ LET st == ReadState(file) IN
                        IF ~st.ok
                        THEN /\ result' = StatusErr
                             /\ UNCHANGED snap
                        ELSE /\ snap' = proc
                             /\ result' = StatusOk(IF st.state = None THEN <<>> ELSE Report(st.state[1], proc))
                   /\ pc' = "done"
                   /\ file' = IF file.kind = "state" /\ \E i \in 1..Len(file.services) : ~Alive(file.services[i], proc) THEN StateFile(SelectSeq(file.services, LAMBDA e : Alive(e, proc))) ELSE file
                   /\ UNCHANGED <<cfg, resolved, todo, running, cur, proc, clock, dtodo, spawnLog, hcDone, timedOut, writes, termReq, downLog, healthVars, workDir, logs, trayVars, appVars, orgVars>>

\* lines 141-160: read the state file, read the process table, report
Status == /\ pc = "idle"
          /\ fileAtStart' = file
          /\ LET st == ReadState(file) IN
               IF ~st.ok
               THEN /\ result' = StatusErr
                    /\ UNCHANGED snap
               ELSE /\ snap' = proc
                    /\ result' = StatusOk(IF st.state = None THEN <<>> ELSE Report(st.state[1], proc))
          /\ pc' = "done"
          /\ UNCHANGED <<cfg, resolved, todo, running, cur, proc, clock, file, dtodo, spawnLog, hcDone, timedOut, writes, termReq, downLog, healthVars, workDir, logs, trayVars, appVars, orgVars>>

\* cli main.rs 121-147: the command prints its result and the control
\* process exits; nothing of the invocation is kept in memory
Return == /\ pc = "done"
          /\ pc' = "idle"
          /\ cfg' = <<>>
          /\ resolved' = [ok |-> TRUE, order |-> <<>>]
          /\ todo' = <<>>
          /\ running' = <<>>
          /\ cur' = NoCur
          /\ snap' = [p \in Pids |-> NoProc]
          /\ dtodo' = <<>>
          /\ result' = NoResult
          /\ spawnLog' = <<>>
          /\ hcDone' = {}
          /\ timedOut' = {}
          /\ fileAtStart' = AbsentFile
          /\ writes' = 0
          /\ termReq' = {}
          /\ downLog' = <<>>
          /\ workDir' = NoDir
          /\ UNCHANGED <<proc, clock, file, healthVars, logs, trayVars, appVars, orgVars>>

(***************************************************************************)
(* The environment: processes exit on their own, unrelated processes       *)
(* start and are given free ids, time passes.  (Between the end of an      *)
(* invocation and the exit of the control process, pc = "done", nothing    *)
(* is observed: the environment's steps are taken after Return.)           *)
(***************************************************************************)
ProcExit == \E p \in Pids :
              /\ pc # "done"
              /\ proc[p].live = "run"
              /\ proc' = IF pc = "up_witness" /\ cur.pid = p THEN [proc EXCEPT ![p].live = "exited"] ELSE [proc EXCEPT ![p] = NoProc]
              /\ UNCHANGED <<pc, cfg, resolved, todo, running, cur, clock, file, snap, dtodo, result, histVars, healthVars, workDir, logs, trayVars, appVars, orgVars>>

ProcStart == \E p \in FreePids :
               /\ pc # "done"
               /\ proc' = [proc EXCEPT ![p] = NewProc(clock, "other")]
               /\ UNCHANGED <<pc, cfg, resolved, todo, running, cur, clock, file, snap, dtodo, result, histVars, healthVars, workDir, logs, trayVars, appVars, orgVars>>

Tick == /\ pc # "done"
        /\ clock < MaxClock
        /\ clock' = clock + 1
        /\ UNCHANGED <<pc, cfg, resolved, todo, running, cur, proc, file, snap, dtodo, result, histVars, healthVars, workDir, logs, trayVars, appVars, orgVars>>

\* a running process writes a line to the log it holds: the handle was
\* opened in append mode, the line goes to the end of the file (the line
\* records where the control process was when it was written)
LogWrite == \E n \in {"db"} :
              /\ pc # "done"
              /\ \E p \in Pids : proc[p].live = "run"
              /\ Len(logs[n]) < MaxLog
              /\ logs' = [logs EXCEPT ![n] = Append(@, pc)]
              /\ UNCHANGED <<pc, cfg, resolved, todo, running, cur, proc, clock, file, snap, dtodo, result, histVars, healthVars, workDir, trayVars, appVars, orgVars>>

(***************************************************************************)
(* The tray's watcher (crates/tray/src/logic.rs).  One TrayLogic, whose    *)
(* start_watching and stop_watching are called one at a time, and the      *)
(* threads it spawns, each running watch_polling (core downloads.rs) and   *)
(* interleaving with the calls and with one another.                       *)
(***************************************************************************)
MaxThreads == 3

Threads == 1..MaxThreads

\* a thread id not yet used / a thread that has just been spawned
NoWatcher == [at |-> "none", stopped |-> FALSE, survived |-> FALSE]

NewWatcher == [at |-> "check", stopped |-> FALSE, survived |-> FALSE]

\* the threads inside watch_polling's loop
InLoop == {t \in Threads : watchers[t].at \in {"check", "organize", "sleep"}}

\* TrayLogic::new: not watching, no handle, no thread
TrayIdle == /\ watching = FALSE
            /\ handle = None
            /\ watchers = [t \in Threads |-> NoWatcher]
            /\ lastCall = "none"

\* lines 102-113: stop_watching stores false and takes the handle; the
\* thread is neither joined nor woken, it runs on until it next loads the
\* flag
StopLeaves(w) == [t \in Threads |-> IF w[t].at \in {"check", "organize", "sleep"} THEN [w[t] EXCEPT !.stopped = TRUE] ELSE w[t]]

\* lines 80-96: swap(true) returns the old flag; when it was set the call
\* returns at once, otherwise a thread is spawned and its handle stored
StartWatching == /\ pc = "tray"
                 /\ IF watching
                    THEN /\ lastCall' = "start_noop"
                         /\ UNCHANGED <<watching, handle, watchers>>
                    ELSE /\ \E t \in Threads : watchers[t].at = "none"
                         /\ LET t == CHOOSE u \in Threads : watchers[u].at = "none" /\ \A v \in Threads : watchers[v].at = "none" => u <= v IN
                              /\ watchers' = [watchers EXCEPT ![t] = NewWatcher]
                              /\ handle' = Some(t)
                         /\ watching' = TRUE
                         /\ lastCall' = "start_spawn"
                 /\ UNCHANGED <<progVars, histVars, healthVars, appVars, orgVars>>

StopWatching == /\ pc = "tray"
                /\ watching' = FALSE
                /\ handle' = None
                /\ watchers' = StopLeaves(watchers)
                /\ lastCall' = "stop"
                /\ UNCHANGED <<progVars, histVars, healthVars, appVars, orgVars>>

\* downloads.rs lines 413-416: the loop's head loads the flag and breaks
\* when it is false
PollCheck(t) == /\ pc = "tray"
                /\ watchers[t].at = "check"
                /\ watchers' = [watchers EXCEPT ![t] = [at |-> IF watching THEN "organize" ELSE "done", stopped |-> @.stopped, survived |-> @.survived \/ (@.stopped /\ watching)]]
                /\ UNCHANGED <<watching, handle, lastCall, progVars, histVars, healthVars, appVars, orgVars>>

\* downloads.rs lines 417-424: organize_once, the callback, then the sleep
PollOrganize(t) == /\ pc = "tray"
                   /\ watchers[t].at = "organize"
                   /\ watchers' = [watchers EXCEPT ![t].at = "sleep"]
                   /\ UNCHANGED <<watching, handle, lastCall, progVars, histVars, healthVars, appVars, orgVars>>

\* the sleep of interval_secs is over; back to the loop's head
PollWake(t) == /\ pc = "tray"
               /\ watchers[t].at = "sleep"
               /\ watchers' = [watchers EXCEPT ![t].at = "check"]
               /\ UNCHANGED <<watching, handle, lastCall, progVars, histVars, healthVars, appVars, orgVars>>

(***************************************************************************)
(* The desktop app's watcher service (crates/tauri-app): AppState,         *)
(* internal_start_service, internal_stop_service, get_service_status and   *)
(* the threads running watch_polling, each on the flag and the clone of    *)
(* the config it was given.  The calls hold the watcher_flag lock from     *)
(* their first line to their return, so each is one step; the threads run  *)
(* at their own pace.                                                      *)
(***************************************************************************)
MaxSvcThreads == 2

SvcThreadIds == 1..MaxSvcThreads

NoSvcThread == [at |-> "none", flag |-> 0, cfg |-> <<>>, stopped |-> FALSE, survived |-> FALSE]

SvcThread(f, c) == [at |-> "check", flag |-> f, cfg |-> c, stopped |-> FALSE, survived |-> FALSE]

\* the threads inside watch_polling's loop
SvcInLoop == {t \in SvcThreadIds : svcThreads[t].at \in {"check", "organize", "sleep"}}

\* a thread that has returned leaves its slot to the next one
FreeThreads == {t \in SvcThreadIds : svcThreads[t].at \in {"none", "done"}}

NoRc == [at |-> "idle", is_running |-> FALSE]

NoSvcHist == [lastInternal |-> "none", lastRule |-> [op |-> "none", ok |-> TRUE, arg |-> <<>>], status |-> None]

\* AppState::new (state.rs 24-32)
AppIdle == /\ watcher_flag = None
           /\ watcher_handle = None
           /\ service_start_time = None
           /\ service_enabled = None
           /\ flags = [f \in SvcThreadIds |-> FALSE]
           /\ svcThreads = [t \in SvcThreadIds |-> NoSvcThread]
           /\ rules = <<>>
           /\ rc = NoRc
           /\ svcHist = NoSvcHist

\* the bug "the new watcher is handed the flag of the one before it"
NewFlagShared(t) == 1

\* settings.rs 84: Arc::new(AtomicBool::new(true)), a flag of its own for
\* every thread
NewFlag(t) == t

\* the bug "start does not look at the flag"
AlreadyRunningNever == FALSE

\* settings.rs 77-81: a flag is stored and it is true
AlreadyRunning == watcher_flag # None /\ flags[watcher_flag[1]]

\* settings.rs 73-106
InternalStartService == IF AlreadyRunning
                        THEN /\ svcHist' = [svcHist EXCEPT !.lastInternal = "start_noop"]
                             /\ UNCHANGED <<watcher_flag, watcher_handle, service_start_time, flags, svcThreads>>
                        ELSE /\ FreeThreads # {}
                             /\ LET t == CHOOSE u \in FreeThreads : \A v \in FreeThreads : u <= v
                                    f == NewFlag(t) IN
                                  /\ flags' = [flags EXCEPT ![f] = TRUE]
                                  /\ watcher_flag' = Some(f)
                                  /\ svcThreads' = [svcThreads EXCEPT ![t] = SvcThread(f, rules)]
                                  /\ watcher_handle' = Some(t)
                             /\ service_start_time' = Some("now")
                             /\ svcHist' = [svcHist EXCEPT !.lastInternal = "start_spawn"]

\* settings.rs 108-127: the stored flag is taken and set to false; the thread
\* is not joined
InternalStopService == /\ flags' = IF watcher_flag # None THEN [flags EXCEPT ![watcher_flag[1]] = FALSE] ELSE flags
                       /\ svcThreads' = [t \in SvcThreadIds |-> IF watcher_flag # None /\ t \in SvcInLoop /\ svcThreads[t].flag = watcher_flag[1] THEN [svcThreads[t] EXCEPT !.stopped = TRUE] ELSE svcThreads[t]]
                       /\ watcher_flag' = None
                       /\ watcher_handle' = None
                       /\ service_start_time' = None
                       /\ svcHist' = [svcHist EXCEPT !.lastInternal = "stop"]

\* main.rs 201-208 (menu item) and settings.rs 143-147 (command):
\* persist_service_state(true), then internal_start_service
StartService == /\ pc = "app"
                /\ service_enabled' = Some(TRUE)
                /\ InternalStartService
                /\ UNCHANGED <<rules, rc, progVars, histVars, healthVars, trayVars, orgVars>>

\* main.rs 209-215 and settings.rs 149-153
StopService == /\ pc = "app"
               /\ service_enabled' = Some(FALSE)
               /\ InternalStopService
               /\ UNCHANGED <<rules, rc, progVars, histVars, healthVars, trayVars, orgVars>>

\* settings.rs 54-71: running is watcher_flag.is_some()
GetServiceStatus == /\ pc = "app"
                    /\ svcHist' = [svcHist EXCEPT !.status = Some([running |-> watcher_flag # None, after |-> svcHist.lastInternal])]
                    /\ UNCHANGED <<watcher_flag, watcher_handle, service_start_time, service_enabled, flags, svcThreads, rules, rc, progVars, histVars, healthVars, trayVars, orgVars>>

\* downloads.rs 413-416 on the thread's own flag
SvcPollCheck(t) == /\ pc = "app"
                   /\ svcThreads[t].at = "check"
                   /\ LET me == svcThreads[t] IN
                        svcThreads' = [svcThreads EXCEPT ![t] = [me EXCEPT !.at = IF flags[me.flag] THEN "organize" ELSE "done", !.survived = me.survived \/ (me.stopped /\ flags[me.flag])]]
                   /\ UNCHANGED <<watcher_flag, watcher_handle, service_start_time, service_enabled, flags, rules, rc, svcHist, progVars, histVars, healthVars, trayVars, orgVars>>

\* downloads.rs 417-424: organize_once on the thread's clone of the config
\* (the pass itself is the organizer's, below), the callback, then the sleep
SvcPollOrganize(t) == /\ pc = "app"
                      /\ svcThreads[t].at = "organize"
                      /\ svcThreads' = [svcThreads EXCEPT ![t].at = "sleep"]
                      /\ UNCHANGED <<watcher_flag, watcher_handle, service_start_time, service_enabled, flags, rules, rc, svcHist, progVars, histVars, healthVars, trayVars, orgVars>>

SvcPollWake(t) == /\ pc = "app"
                  /\ svcThreads[t].at = "sleep"
                  /\ svcThreads' = [svcThreads EXCEPT ![t].at = "check"]
                  /\ UNCHANGED <<watcher_flag, watcher_handle, service_start_time, service_enabled, flags, rules, rc, svcHist, progVars, histVars, healthVars, trayVars, orgVars>>

(***************************************************************************)
(* The rule list of the desktop app's config and the five rule commands    *)
(* (tauri-app commands/rules.rs).  A command changes the list under the    *)
(* config write lock and saves it, releases the lock, and then runs        *)
(* restart_service_if_running, whose three lock acquisitions are separate  *)
(* steps that calls from other threads can come between.                   *)
(***************************************************************************)
MaxRules == 3

RuleNames == {"img", "doc", "zip"}

\* types.rs 39-49: Rule (pattern and max_size_bytes are None throughout)
Rule(n, exts, min, dir, link, en) == [name |-> n, extensions |-> exts, min_size_bytes |-> min, target_dir |-> dir, create_symlink |-> link, enabled |-> en]

\* an extension as the frontend sends it: a number of leading dots, then
\* the letters
ExtArg(dots, letters) == [dots |-> dots, s |-> letters]

\* e.trim_start_matches('.')
TrimDots(e) == e.s

\* rules.rs 188-200 and 274-279: leading dots removed, empty strings
\* dropped, an empty list stored as None
ConvertExtensions(exts) == LET trimmed == SelectSeq([i \in 1..Len(exts) |-> TrimDots(exts[i])], LAMBDA e : e # "") IN IF trimmed = <<>> THEN None ELSE Some(trimmed)

ExtArgs == {<<ExtArg(1, "txt"), ExtArg(1, "")>>, <<ExtArg(0, "txt")>>}

EnabledArgs == {None, Some(FALSE)}

\* the index of the first rule named n, 0 when there is none
FindRule(rs, n) == IF \E i \in 1..Len(rs) : rs[i].name = n THEN CHOOSE i \in 1..Len(rs) : rs[i].name = n /\ \A j \in 1..(i - 1) : rs[j].name # n ELSE 0

RuleResult(op, ok, arg) == [op |-> op, ok |-> ok, arg |-> arg]

\* save_config (rules.rs 111-116) succeeded or not: the list in memory is
\* the changed one either way; restart_service_if_running is reached only
\* after a successful save
Saved(op, arg, newRules) == /\ rules' = newRules
                            /\ \/ /\ rc' = [at |-> "check", is_running |-> FALSE]
                                  /\ svcHist' = [svcHist EXCEPT !.lastRule = RuleResult(op, TRUE, arg)]
                               \/ /\ rc' = NoRc
                                  /\ svcHist' = [svcHist EXCEPT !.lastRule = RuleResult(op, FALSE, arg)]

\* the command returns its error before anything is changed
Refused(op, arg) == /\ svcHist' = [svcHist EXCEPT !.lastRule = RuleResult(op, FALSE, arg)]
                    /\ UNCHANGED <<rules, rc>>

\* rules.rs 183
NameTaken(rs, n) == \E i \in 1..Len(rs) : rs[i].name = n

\* rules.rs 168-212
CreateRule(names) == /\ pc = "app"
                     /\ rc.at = "idle"
                     /\ \E n \in names, exts \in ExtArgs, en \in EnabledArgs :
                          IF NameTaken(rules, n)
                          THEN Refused("create", <<n>>)
                          ELSE /\ Len(rules) < MaxRules
                               /\ Saved("create", <<n>>, Append(rules, Rule(n, ConvertExtensions(exts), None, "T1", None, en)))
                     /\ UNCHANGED <<watcher_flag, watcher_handle, service_start_time, service_enabled, flags, svcThreads, progVars, histVars, healthVars, trayVars, orgVars>>

\* rules.rs 270-272: a given name is stored as it is, without a look at
\* the names of the other rules
Rename(r, name) == IF name # None THEN [r EXCEPT !.name = name[1]] ELSE r

\* rules.rs 249-303 (destination, pattern and the sizes are not passed)
UpdateRule(names) == /\ pc = "app"
                     /\ rc.at = "idle"
                     /\ \E id \in names, name \in {None} \cup {Some(n) : n \in names}, exts \in {None} \cup {Some(e) : e \in ExtArgs}, en \in {None, Some(TRUE)} :
                          LET i == FindRule(rules, id) IN
                            IF i = 0
                            THEN Refused("update", <<id>>)
                            ELSE LET r1 == Rename(rules[i], name)
                                     r2 == IF exts # None THEN [r1 EXCEPT !.extensions = ConvertExtensions(exts[1])] ELSE r1
                                     r3 == IF en # None THEN [r2 EXCEPT !.enabled = Some(en[1])] ELSE r2 IN
                                   Saved("update", <<id>>, [rules EXCEPT ![i] = r3])
                     /\ UNCHANGED <<watcher_flag, watcher_handle, service_start_time, service_enabled, flags, svcThreads, progVars, histVars, healthVars, trayVars, orgVars>>

\* rules.rs 315-327: retain drops every rule of that name
DeleteRule(names) == /\ pc = "app"
                     /\ rc.at = "idle"
                     /\ \E n \in names :
                          LET kept == SelectSeq(rules, LAMBDA r : r.name # n) IN
                            IF Len(kept) = Len(rules)
                            THEN Refused("delete", <<n>>)
                            ELSE Saved("delete", <<n>>, kept)
                     /\ UNCHANGED <<watcher_flag, watcher_handle, service_start_time, service_enabled, flags, svcThreads, progVars, histVars, healthVars, trayVars, orgVars>>

\* rules.rs 341-357
ToggleRule(names) == /\ pc = "app"
                     /\ rc.at = "idle"
                     /\ \E n \in names, en \in BOOLEAN :
                          LET i == FindRule(rules, n) IN
                            IF i = 0
                            THEN Refused("toggle", <<n>>)
                            ELSE Saved("toggle", <<n>>, [rules EXCEPT ![i].enabled = Some(en)])
                     /\ UNCHANGED <<watcher_flag, watcher_handle, service_start_time, service_enabled, flags, svcThreads, progVars, histVars, healthVars, trayVars, orgVars>>

\* rules.rs 378-382: for every name of rule_names, in order, a clone of the
\* first rule of that name
NamedFirst(rs, names) == LET idx == SelectSeq([k \in 1..Len(names) |-> FindRule(rs, names[k])], LAMBDA i : i # 0) IN [k \in 1..Len(idx) |-> rs[idx[k]]]

\* rules.rs 385-389: then the rules whose name is not in rule_names
Unnamed(rs, names) == SelectSeq(rs, LAMBDA r : \A k \in 1..Len(names) : names[k] # r.name)

\* rules.rs 371-393
ReorderRules(nameLists) == /\ pc = "app"
                       /\ rc.at = "idle"
                       /\ \E rule_names \in nameLists :
                            LET new_rules == NamedFirst(rules, rule_names) \o Unnamed(rules, rule_names) IN
                              /\ Len(new_rules) <= MaxRules
                              /\ Saved("reorder", rule_names, new_rules)
                       /\ UNCHANGED <<watcher_flag, watcher_handle, service_start_time, service_enabled, flags, svcThreads, progVars, histVars, healthVars, trayVars, orgVars>>

\* rules.rs 118-123: is_running is read and the lock released
RestartCheck == /\ pc = "app"
                /\ rc.at = "check"
                /\ rc' = IF watcher_flag # None THEN [at |-> "stop", is_running |-> TRUE] ELSE NoRc
                /\ UNCHANGED <<watcher_flag, watcher_handle, service_start_time, service_enabled, flags, svcThreads, rules, svcHist, progVars, histVars, healthVars, trayVars, orgVars>>

\* rules.rs 124
RestartStop == /\ pc = "app"
               /\ rc.at = "stop"
               /\ InternalStopService
               /\ rc' = [rc EXCEPT !.at = "start"]
               /\ UNCHANGED <<service_enabled, rules, progVars, histVars, healthVars, trayVars, orgVars>>

\* rules.rs 125
RestartStart == /\ pc = "app"
                /\ rc.at = "start"
                /\ InternalStartService
                /\ rc' = NoRc
                /\ UNCHANGED <<service_enabled, rules, progVars, histVars, healthVars, trayVars, orgVars>>

(***************************************************************************)
(* The downloads organizer (core/src/downloads.rs).                        *)
(*                                                                         *)
(*   fsys   the file system: a function from the paths that exist to a    *)
(*          regular file or a symbolic link                                *)
(*   pass   per organize_once call, where it stands and its locals         *)
(*   moved  (history) one record per rename that succeeded                 *)
(*                                                                         *)
(* cfg.rules of the pass is the variable rules.  Every system call of a    *)
(* pass is one step, so that two passes interleave between them.  The      *)
(* rules of the model carry no pattern and no max_size_bytes.              *)
(***************************************************************************)
\* the i that unique_target tries
MaxSuffix == 3

\* " (i)" endings that a stem carries at most
MaxSfxLen == 2

\* symbolic links that exists() follows at most
MaxHops == 3

DownloadDir == "D"

\* the manual pass is trigger_organize_now's, the other the watcher thread's
PassIds == {"watcher", "manual"}

\* the file name "base (i1) (i2).ext": file_stem is base with the endings
Name(base, sfx, ext) == [base |-> base, sfx |-> sfx, ext |-> ext]

Path(dir, name) == [dir |-> dir, name |-> name]

\* a regular file: aged says that its modification time is min_age back
File(id, size, aged) == [kind |-> "file", id |-> id, size |-> size, aged |-> aged]

Link(to) == [kind |-> "link", to |-> to]

\* to_ascii_lowercase on the extensions of the model
Lower(e) == CASE e = "TXT" -> "txt"
              [] e = "PART" -> "part"
              [] OTHER -> e

\* downloads.rs 233-239
is_partial(name) == Lower(name.ext) \in {"crdownload", "part", "tmp", "download"}

\* downloads.rs 241-273
matches_rule(name, meta, rule) == /\ rule.extensions # None => \E k \in 1..Len(rule.extensions[1]) : Lower(rule.extensions[1][k]) = Lower(name.ext)
                                  /\ rule.min_size_bytes # None => meta.size >= rule.min_size_bytes[1]

\* downloads.rs 343-345
IsEnabled(rule) == rule.enabled # Some(FALSE)

\* downloads.rs 341-359: the index of the first enabled rule that matches,
\* 0 when there is none
FirstRule(rs, name, meta) == IF \E i \in 1..Len(rs) : IsEnabled(rs[i]) /\ matches_rule(name, meta, rs[i])
                             THEN CHOOSE i \in 1..Len(rs) : /\ IsEnabled(rs[i]) /\ matches_rule(name, meta, rs[i])
                                                            /\ \A j \in 1..(i - 1) : ~(IsEnabled(rs[j]) /\ matches_rule(name, meta, rs[j]))
                             ELSE 0

\* Path::exists follows symbolic links; a dangling link or a loop is false
RECURSIVE Resolves(_, _, _)
Resolves(fs, p, hops) == /\ p \in DOMAIN fs
                         /\ \/ fs[p].kind = "file"
                            \/ fs[p].kind = "link" /\ hops > 0 /\ Resolves(fs, fs[p].to, hops - 1)

Exists(fs, p) == Resolves(fs, p, MaxHops)

\* downloads.rs 286-297: "stem (i).ext" beside target
Numbered(target, i) == Path(target.dir, Name(target.name.base, Append(target.name.sfx, i), target.name.ext))

\* downloads.rs 280-303
unique_target(fs, target) == IF ~Exists(fs, target)
                             THEN target
                             ELSE Numbered(target, CHOOSE i \in 1..MaxSuffix : /\ ~Exists(fs, Numbered(target, i))
                                                                                /\ \A j \in 1..(i - 1) : Exists(fs, Numbered(target, j)))

\* fs::rename: the entry at from is taken to to, and an entry that was at to
\* is replaced by it
RenameReplacing(fs, from, to) == [q \in (DOMAIN fs \ {from}) \cup {to} |-> IF q = to THEN fs[from] ELSE fs[q]]

\* the names in the download directory
Entries(fs) == {q.name : q \in {x \in DOMAIN fs : x.dir = DownloadDir}}

NoPass == [at |-> "idle", listed |-> {}, returned |-> {}, path |-> None, meta |-> None, rule |-> 0, target |-> None]

\* no pass and no file
OrgIdle == /\ fsys = <<>>
           /\ pass = <<>>
           /\ moved = {}

\* what the step of pass p leaves alone
OrgFrame == UNCHANGED <<rules, watcher_flag, watcher_handle, service_start_time, service_enabled, flags, svcThreads, rc, svcHist, progVars, histVars, healthVars, trayVars>>

\* the loop goes on with the next entry
Continue(p) == pass' = [pass EXCEPT ![p] = [@ EXCEPT !.at = "next", !.path = None, !.meta = None, !.rule = 0, !.target = None]]

\* downloads.rs 317: read_dir opens the download directory
OrgReadDir(p) == /\ pc = "organize"
                 /\ pass[p].at = "idle"
                 /\ pass' = [pass EXCEPT ![p] = [NoPass EXCEPT !.at = "next", !.listed = Entries(fsys)]]
                 /\ UNCHANGED <<fsys, moved>>
                 /\ OrgFrame

\* entries that came into the directory after read_dir: whether the
\* iterator returns them is not specified
LaterEntries(p) == {n \in Entries(fsys) \ pass[p].listed : Len(n.sfx) < MaxSfxLen}

\* downloads.rs 317-319: the iterator returns an entry, in no given order,
\* or ends
OrgNextEntry(p) == /\ pc = "organize"
                   /\ pass[p].at = "next"
                   /\ \/ \E n \in (pass[p].listed \cup LaterEntries(p)) \ pass[p].returned :
                           pass' = [pass EXCEPT ![p] = [@ EXCEPT !.at = "stat", !.path = Some(Path(DownloadDir, n)), !.returned = pass[p].returned \cup {n}]]
                      \/ /\ pass[p].listed \subseteq pass[p].returned
                         /\ pass' = [pass EXCEPT ![p] = [@ EXCEPT !.at = "done"]]
                   /\ UNCHANGED <<fsys, moved>>
                   /\ OrgFrame

\* downloads.rs 320-359 up to the match: symlink_metadata, the skips, and
\* the first enabled rule that matches path and meta
OrgStat(p) == /\ pc = "organize"
              /\ pass[p].at = "stat"
              /\ LET path == pass[p].path[1] IN
                   IF path \notin DOMAIN fsys
                   THEN Continue(p)
                   ELSE LET meta == fsys[path] IN
                          IF meta.kind # "file" \/ is_partial(path.name) \/ ~meta.aged \/ FirstRule(rules, path.name, meta) = 0
                          THEN Continue(p)
                          ELSE pass' = [pass EXCEPT ![p] = [@ EXCEPT !.at = "target", !.meta = Some(meta), !.rule = FirstRule(rules, path.name, meta)]]
              /\ UNCHANGED <<fsys, moved>>
              /\ OrgFrame

\* downloads.rs 346-354: target_dir joined with the file name, and
\* unique_target on it
OrgTarget(p) == /\ pc = "organize"
                /\ pass[p].at = "target"
                /\ LET target == Path(rules[pass[p].rule].target_dir, pass[p].path[1].name) IN
                     /\ \/ ~Exists(fsys, target)
                        \/ \E i \in 1..MaxSuffix : ~Exists(fsys, Numbered(target, i))
                     /\ pass' = [pass EXCEPT ![p] = [@ EXCEPT !.at = "rename", !.target = Some(unique_target(fsys, target))]]
                /\ UNCHANGED <<fsys, moved>>
                /\ OrgFrame

\* downloads.rs 361-362: fs::rename; its error ends the pass
OrgRename(p) == /\ pc = "organize"
                /\ pass[p].at = "rename"
                /\ LET path == pass[p].path[1]
                       target == pass[p].target[1]
                       rule == rules[pass[p].rule] IN
                     IF path \notin DOMAIN fsys
                     THEN /\ pass' = [pass EXCEPT ![p] = [@ EXCEPT !.at = "failed"]]
                          /\ UNCHANGED <<fsys, moved>>
                     ELSE /\ fsys' = RenameReplacing(fsys, path, target)
                          /\ moved' = moved \cup {[pass |-> p, what |-> fsys[path], from |-> path, to |-> target, rule |-> pass[p].rule, over |-> IF target \in DOMAIN fsys /\ target # path THEN Some(fsys[target]) ELSE None]}
                          /\ pass' = [pass EXCEPT ![p] = [@ EXCEPT !.at = IF rule.create_symlink = Some(TRUE) THEN "link" ELSE "next"]]
                /\ OrgFrame

\* downloads.rs 364-386: the symbolic link at the old path; its error is
\* only noted
OrgSymlink(p) == /\ pc = "organize"
                 /\ pass[p].at = "link"
                 /\ LET path == pass[p].path[1]
                        target == pass[p].target[1] IN
                      fsys' = IF path \in DOMAIN fsys THEN fsys ELSE [q \in DOMAIN fsys \cup {path} |-> IF q = path THEN Link(target) ELSE fsys[q]]
                 /\ Continue(p)
                 /\ UNCHANGED moved
                 /\ OrgFrame

(***************************************************************************)
(* Specifications.                                                         *)
(***************************************************************************)
\* a state file written by a version that recorded no start_time, whose
\* service is still running
LegacyFile == StateFile(<<RunningService("db", 1, None)>>)

Init == /\ pc = "idle"
        /\ cfg = <<>>
        /\ resolved = [ok |-> TRUE, order |-> <<>>]
        /\ todo = <<>>
        /\ running = <<>>
        /\ cur = NoCur
        /\ clock = 1
        /\ \/ /\ file = AbsentFile
              /\ proc = [p \in Pids |-> NoProc]
           \/ /\ file = LegacyFile
              /\ proc = [p \in Pids |-> IF p = 1 THEN NewProc(1, "cur") ELSE NoProc]
        /\ snap = [p \in Pids |-> NoProc]
        /\ dtodo = <<>>
        /\ result = NoResult
        /\ spawnLog = <<>>
        /\ hcDone = {}
        /\ timedOut = {}
        /\ fileAtStart = AbsentFile
        /\ writes = 0
        /\ termReq = {}
        /\ downLog = <<>>
        /\ HealthIdle
        /\ workDir = NoDir
        /\ logs = NoLogs
        /\ TrayIdle
        /\ AppIdle
        /\ OrgIdle

\* the life cycle: any sequence of up, down and status invocations, one at
\* a time, in an environment where processes come and go
Next == \/ UpBegin(ProcConfigs)
        \/ UpSpawn
        \/ UpWitness
        \/ UpHealth
        \/ UpWrite
        \/ DownBegin
        \/ DownKill
        \/ DownRemove
        \/ Status
        \/ Return
        \/ ProcExit
        \/ ProcStart
        \/ Tick

Spec == Init /\ [][Next]_vars

\* one invocation of up, on every configuration of UpConfigs, the services
\* it spawns (and the service of an earlier up) exiting whenever they do
NextUp == \/ UpBegin(UpConfigs)
          \/ UpSpawn
          \/ UpWitness
          \/ UpHealth
          \/ UpWrite
          \/ ProcExit

SpecUp == Init /\ [][NextUp]_vars

LogConfigs == {<<Service("db", <<>>, "none", "none")>>}

\* the logs: any sequence of up invocations on the service db, the service
\* writing to its log and exiting whenever it does
NextLogs == \/ UpBegin(LogConfigs)
            \/ UpSpawn
            \/ UpWitness
            \/ UpHealth
            \/ UpWrite
            \/ Return
            \/ ProcExit
            \/ LogWrite

SpecLogs == Init /\ [][NextLogs]_vars

(***************************************************************************)
(* Specification of the up command of the cli: one invocation on every     *)
(* config file of ConfigFiles: unreadable, unparseable, or a list of up to *)
(* three services named db or backend, repeated names included, backend    *)
(* with a tcp health check; and lists where backend depends on db and on   *)
(* frontend, declared or not.                                              *)
(***************************************************************************)
ConfigFiles == {UnreadableConfig, GarbageConfig} \cup {ConfigOf([i \in 1..Len(names) |-> Service(names[i], <<>>, "none", IF names[i] = "backend" THEN "tcp" ELSE "absent")]) : names \in SeqsUpTo({"db", "backend"}, 3)} \cup {ConfigOf(<<Service("backend", d, "none", "absent")>>) : d \in {<<"db">>, <<"frontend", "db">>}} \cup {ConfigOf(<<Service("db", <<>>, "none", "absent"), Service("backend", d, "none", "absent")>>) : d \in {<<"db">>, <<"frontend">>, <<"db", "frontend">>}}

NextCli == \/ CliUp(ConfigFiles)
           \/ UpSpawn
           \/ UpWitness
           \/ UpHealth
           \/ UpWrite
           \/ ProcExit

SpecCli == Init /\ [][NextCli]_vars

(***************************************************************************)
(* Specification of the resolver alone: topo_order applied to every list   *)
(* of up to three uniquely named services, in any order, each with up to   *)
(* MaxDeps depends_on entries (repeated, undeclared and cyclic ones        *)
(* included), under every iteration order of the HashMap.                  *)
(***************************************************************************)
NameLists == UNION {Perms(S) : S \in SUBSET ServiceNames}

ServicesNamed(names) == {s \in [1..Len(names) -> [name : ServiceNames, depends_on : SeqsUpTo(ServiceNames, MaxDeps), cwd : {"none"}, health_check : {"absent"}]] : \A i \in 1..Len(names) : s[i].name = names[i]}

TopoConfigs == UNION {ServicesNamed(names) : names \in NameLists}

InitTopo == /\ pc = "topo"
            /\ cfg \in TopoConfigs
            /\ resolved = [ok |-> TRUE, order |-> <<>>]
            /\ todo = <<>>
            /\ running = <<>>
            /\ cur = NoCur
            /\ clock = 1
            /\ file = AbsentFile
            /\ proc = [p \in Pids |-> NoProc]
            /\ snap = [p \in Pids |-> NoProc]
            /\ dtodo = <<>>
            /\ result = NoResult
            /\ spawnLog = <<>>
            /\ hcDone = {}
            /\ timedOut = {}
            /\ fileAtStart = AbsentFile
            /\ writes = 0
            /\ termReq = {}
            /\ downLog = <<>>
            /\ HealthIdle
            /\ workDir = NoDir
            /\ logs = NoLogs
            /\ TrayIdle
            /\ AppIdle
            /\ OrgIdle

\* let order = topo_order(&cfg.services) (orchestrator.rs 98)
TopoRun == /\ pc = "topo"
           /\ \E iter \in IterOrders(cfg) : resolved' = TopoOrder(cfg, iter)
           /\ pc' = "topo_done"
           /\ UNCHANGED <<cfg, todo, running, cur, proc, clock, file, snap, dtodo, result, histVars, healthVars, workDir, logs, trayVars, appVars, orgVars>>

NextTopo == TopoRun

SpecTopo == InitTopo /\ [][NextTopo]_vars

(***************************************************************************)
(* Specification of the state file alone: write_state applied to every     *)
(* State of up to MaxState services (with and without start_time, with log *)
(* paths that are UTF-8 or not) and read_state applied to the file it      *)
(* leaves, and read_state applied to files written by other hands.         *)
(***************************************************************************)
LogPaths(n) == {OutLog(n), <<"logs", InvalidUtf8, "out.log">>}

RunningServices == UNION {{[name |-> n, pid |-> p, start_time |-> t, stdout_log |-> o, stderr_log |-> ErrLog(n)] : p \in Pids, t \in {None} \cup {Some(c) : c \in 1..MaxClock}, o \in LogPaths(n)} : n \in {"db", "backend"}}

States == SeqsUpTo(RunningServices, MaxState)

\* an entry written before start_time existed; an entry without pid; an
\* entry whose start_time is a string
ForeignContents == {JObj([services |-> JArr(<<JObj([name |-> JStr("db"), pid |-> JNum(1), stdout_log |-> JStr(OutLog("db")), stderr_log |-> JStr(ErrLog("db"))])>>)]), JObj([services |-> JArr(<<JObj([name |-> JStr("db"), stdout_log |-> JStr(OutLog("db")), stderr_log |-> JStr(ErrLog("db"))])>>)]), JObj([services |-> JArr(<<JObj([name |-> JStr("db"), pid |-> JNum(1), start_time |-> JStr("1"), stdout_log |-> JStr(OutLog("db")), stderr_log |-> JStr(ErrLog("db"))])>>)])}

WriteOk == [op |-> "write_state", ok |-> TRUE, err |-> "none", state |-> <<>>, report |-> <<>>]

WriteErr(e) == [op |-> "write_state", ok |-> FALSE, err |-> e, state |-> <<>>, report |-> <<>>]

ReadResult(r) == [op |-> "read_state", ok |-> r.ok, err |-> IF r.ok THEN "none" ELSE "parse", state |-> r.state, report |-> <<>>]

InitState == /\ \/ /\ pc = "st_write"
                   /\ running \in States
                   /\ file \in {AbsentFile, CorruptFile}
                \/ /\ pc = "st_read"
                   /\ running = <<>>
                   /\ \E j \in ForeignContents : file = JsonFile(j)
             /\ cfg = <<>>
             /\ resolved = [ok |-> TRUE, order |-> <<>>]
             /\ todo = <<>>
             /\ cur = NoCur
             /\ clock = 1
             /\ proc = [p \in Pids |-> NoProc]
             /\ snap = [p \in Pids |-> NoProc]
             /\ dtodo = <<>>
             /\ result = NoResult
             /\ spawnLog = <<>>
             /\ hcDone = {}
             /\ timedOut = {}
             /\ fileAtStart = AbsentFile
             /\ writes = 0
             /\ termReq = {}
             /\ downLog = <<>>
             /\ HealthIdle
             /\ workDir = NoDir
             /\ logs = NoLogs
             /\ TrayIdle
             /\ AppIdle
             /\ OrgIdle

\* write_state (state.rs 31-36): serialize, then replace the file; the
\* serialization fails on a path that is not UTF-8, and a failed fs::write
\* leaves the old content or a truncated file
WriteState == /\ pc = "st_write"
              /\ \/ /\ Serializable(running)
                    /\ file' = JsonFile(Serialize(running))
                    /\ writes' = writes + 1
                    /\ result' = WriteOk
                 \/ /\ ~Serializable(running)
                    /\ result' = WriteErr("serialize")
                    /\ UNCHANGED <<file, writes>>
                 \/ /\ Serializable(running)
                    /\ file' \in {file, CorruptFile}
                    /\ result' = WriteErr("write")
                    /\ UNCHANGED writes
              /\ pc' = "st_read"
              /\ UNCHANGED <<cfg, resolved, todo, running, cur, proc, clock, snap, dtodo, spawnLog, hcDone, timedOut, fileAtStart, termReq, downLog, healthVars, workDir, logs, trayVars, appVars, orgVars>>

\* read_state (state.rs 21-29) on the same path
ReadBack == /\ pc = "st_read"
            /\ result' = ReadResult(ReadState(file))
            /\ pc' = "st_done"
            /\ UNCHANGED <<cfg, resolved, todo, running, cur, proc, clock, file, snap, dtodo, histVars, healthVars, workDir, logs, trayVars, appVars, orgVars>>

NextState == WriteState \/ ReadBack

SpecState == InitState /\ [][NextState]_vars

(***************************************************************************)
(* Specification of wait_ready alone: one call on every HealthCheck of     *)
(* HealthChecks, the probed service answering each attempt as it likes.    *)
(***************************************************************************)
TimeoutChoices == {None, Some(0), Some(100), Some(400)}

RetryChoices == {None} \cup {Some(k) : k \in 0..MaxRetries}

HealthChecks == {HealthCheck(k[1], k[2], k[3], k[4], t, r) : k \in {<<"none", None, None, None>>, <<"http", None, None, None>>, <<"http", None, Some("http://localhost:8080/health"), None>>, <<"tcp", None, None, None>>, <<"tcp", None, None, Some(8080)>>, <<"command", None, None, None>>, <<"command", Some(""), None, None>>, <<"command", Some("probe"), None, None>>}, t \in TimeoutChoices, r \in RetryChoices}

InitHealth == /\ pc = "wr_loop"
              /\ hcheck \in HealthChecks
              /\ elapsed = 0
              /\ attempts = 0
              /\ made = 0
              /\ last = NoAttempt
              /\ cfg = <<>>
              /\ resolved = [ok |-> TRUE, order |-> <<>>]
              /\ todo = <<>>
              /\ running = <<>>
              /\ cur = NoCur
              /\ clock = 1
              /\ file = AbsentFile
              /\ proc = [p \in Pids |-> NoProc]
              /\ snap = [p \in Pids |-> NoProc]
              /\ dtodo = <<>>
              /\ result = NoResult
              /\ spawnLog = <<>>
              /\ hcDone = {}
              /\ timedOut = {}
              /\ fileAtStart = AbsentFile
              /\ writes = 0
              /\ termReq = {}
              /\ downLog = <<>>
              /\ workDir = NoDir
              /\ logs = NoLogs
              /\ TrayIdle
              /\ AppIdle
              /\ OrgIdle

NextHealth == WaitAttempt \/ WaitExhausted

SpecHealth == InitHealth /\ [][NextHealth]_vars

(***************************************************************************)
(* Specification of the tray's watcher: any sequence of start_watching     *)
(* and stop_watching calls on one TrayLogic, with the spawned threads      *)
(* running at their own pace.                                              *)
(***************************************************************************)
InitTray == /\ pc = "tray"
            /\ TrayIdle
            /\ AppIdle
            /\ OrgIdle
            /\ HealthIdle
            /\ cfg = <<>>
            /\ resolved = [ok |-> TRUE, order |-> <<>>]
            /\ todo = <<>>
            /\ running = <<>>
            /\ cur = NoCur
            /\ clock = 1
            /\ file = AbsentFile
            /\ proc = [p \in Pids |-> NoProc]
            /\ snap = [p \in Pids |-> NoProc]
            /\ dtodo = <<>>
            /\ result = NoResult
            /\ spawnLog = <<>>
            /\ hcDone = {}
            /\ timedOut = {}
            /\ fileAtStart = AbsentFile
            /\ writes = 0
            /\ termReq = {}
            /\ downLog = <<>>
            /\ workDir = NoDir
            /\ logs = NoLogs

NextTray == \/ StartWatching
            \/ StopWatching
            \/ \E t \in Threads : PollCheck(t)
            \/ \E t \in Threads : PollOrganize(t)
            \/ \E t \in Threads : PollWake(t)

SpecTray == InitTray /\ [][NextTray]_vars

(***************************************************************************)
(* Specification of the rule commands: any sequence of create_rule,        *)
(* update_rule, delete_rule, toggle_rule and reorder_rules on a config     *)
(* that starts without rules, the watcher service not running.             *)
(***************************************************************************)
\* nothing of the service runner, the tray or the health checks is active
IdleButAppOrg == /\ TrayIdle
                 /\ HealthIdle
                 /\ cfg = <<>>
                 /\ resolved = [ok |-> TRUE, order |-> <<>>]
                 /\ todo = <<>>
                 /\ running = <<>>
                 /\ cur = NoCur
                 /\ clock = 1
                 /\ file = AbsentFile
                 /\ proc = [p \in Pids |-> NoProc]
                 /\ snap = [p \in Pids |-> NoProc]
                 /\ dtodo = <<>>
                 /\ result = NoResult
                 /\ spawnLog = <<>>
                 /\ hcDone = {}
                 /\ timedOut = {}
                 /\ fileAtStart = AbsentFile
                 /\ writes = 0
                 /\ termReq = {}
                 /\ downLog = <<>>
                 /\ workDir = NoDir
                 /\ logs = NoLogs

IdleButApp == /\ OrgIdle
              /\ IdleButAppOrg

InitRules == /\ pc = "app"
             /\ AppIdle
             /\ IdleButApp

NextRules == \/ CreateRule(RuleNames)
             \/ UpdateRule(RuleNames)
             \/ DeleteRule(RuleNames)
             \/ ToggleRule(RuleNames)
             \/ ReorderRules(SeqsUpTo(RuleNames, MaxRules))
             \/ RestartCheck

SpecRules == InitRules /\ [][NextRules]_vars

(***************************************************************************)
(* Specification of the watcher service: the menu's service on and off     *)
(* and get_service_status, called in any order, with the watcher threads   *)
(* running at their own pace.  main.rs 45-51 starts the service at launch  *)
(* when the config says so; here it starts stopped and the first service   *)
(* on does the same.                                                       *)
(***************************************************************************)
InitApp == /\ pc = "app"
           /\ watcher_flag = None
           /\ watcher_handle = None
           /\ service_start_time = None
           /\ service_enabled = None
           /\ flags = [f \in SvcThreadIds |-> FALSE]
           /\ svcThreads = [t \in SvcThreadIds |-> NoSvcThread]
           /\ rules = <<Rule("img", Some(<<"txt">>), None, "T1", None, None)>>
           /\ rc = NoRc
           /\ svcHist = NoSvcHist
           /\ IdleButApp

NextApp == \/ StartService
           \/ StopService
           \/ GetServiceStatus
           \/ \E t \in SvcThreadIds : SvcPollCheck(t)
           \/ \E t \in SvcThreadIds : SvcPollOrganize(t)
           \/ \E t \in SvcThreadIds : SvcPollWake(t)

SpecApp == InitApp /\ [][NextApp]_vars

\* the same with every watcher thread scheduled again and again and every
\* sleep coming to its end
SpecAppFair == SpecApp /\ \A t \in SvcThreadIds : WF_vars(SvcPollCheck(t)) /\ WF_vars(SvcPollOrganize(t)) /\ WF_vars(SvcPollWake(t))

(***************************************************************************)
(* Specification of rule changes next to the service: the five rule        *)
(* commands on the one rule img, one command at a time, while service on   *)
(* and service off are chosen in the menu from another thread and the      *)
(* watcher threads run.                                                    *)
(***************************************************************************)
AppRuleNames == {"img"}

NextRestart == \/ StartService
               \/ StopService
               \/ CreateRule(AppRuleNames)
               \/ UpdateRule(AppRuleNames)
               \/ DeleteRule(AppRuleNames)
               \/ ToggleRule(AppRuleNames)
               \/ ReorderRules({<<>>, <<"img">>})
               \/ RestartCheck
               \/ RestartStop
               \/ RestartStart
               \/ \E t \in SvcThreadIds : SvcPollCheck(t)
               \/ \E t \in SvcThreadIds : SvcPollOrganize(t)
               \/ \E t \in SvcThreadIds : SvcPollWake(t)

SpecRestart == InitApp /\ [][NextRestart]_vars

(***************************************************************************)
(* The organizer alone: one pass, and the watcher's pass together with a   *)
(* manual one on the same configuration.                                   *)
(***************************************************************************)
\* the configurations of the passes
OrgConfigs == {<<Rule("img", Some(<<"txt">>), None, "T1", None, None)>>,
               <<Rule("img", Some(<<"txt">>), None, "T1", None, Some(FALSE)), Rule("doc", None, Some(2), "T2", Some(TRUE), None)>>,
               <<Rule("img", Some(<<"TXT">>), None, "T1", Some(TRUE), Some(TRUE)), Rule("doc", None, None, "T2", None, None)>>,
               <<Rule("img", Some(<<"txt">>), None, DownloadDir, None, None)>>}

\* f with the entry e at path q
With(f, q, e) == [x \in DOMAIN f \cup {q} |-> IF x = q THEN e ELSE f[x]]

ATxt == Name("a", <<>>, "txt")

\* the directories at the start of the passes
InitFiles == {With(With(<<>>, Path(DownloadDir, ATxt), File(1, 3, TRUE)), Path("T1", ATxt), File(2, 1, TRUE)),
              With(With(With(<<>>, Path(DownloadDir, ATxt), File(1, 1, TRUE)), Path(DownloadDir, Name("b", <<>>, "part")), File(2, 3, TRUE)), Path(DownloadDir, Name("c", <<>>, "txt")), File(3, 3, FALSE)),
              With(With(With(<<>>, Path(DownloadDir, ATxt), File(1, 3, TRUE)), Path(DownloadDir, Name("b", <<>>, "TXT")), File(2, 1, TRUE)), Path(DownloadDir, Name("l", <<>>, "txt")), Link(Path(DownloadDir, ATxt)))}

InitOrganize == /\ pc = "organize"
                /\ rules \in OrgConfigs
                /\ fsys \in InitFiles
                /\ pass = [p \in PassIds |-> NoPass]
                /\ moved = {}
                /\ watcher_flag = None
                /\ watcher_handle = None
                /\ service_start_time = None
                /\ service_enabled = None
                /\ flags = [f \in SvcThreadIds |-> FALSE]
                /\ svcThreads = [t \in SvcThreadIds |-> NoSvcThread]
                /\ rc = NoRc
                /\ svcHist = NoSvcHist
                /\ IdleButAppOrg

\* one organize_once call
NextOrganize == \/ OrgReadDir("manual")
                \/ OrgNextEntry("manual")
                \/ OrgStat("manual")
                \/ OrgTarget("manual")
                \/ OrgRename("manual")
                \/ OrgSymlink("manual")

SpecOrganize == InitOrganize /\ [][NextOrganize]_vars

\* the watcher thread's call and trigger_organize_now's at the same time
NextOrganizeBoth == \/ \E p \in PassIds : OrgReadDir(p)
                    \/ \E p \in PassIds : OrgNextEntry(p)
                    \/ \E p \in PassIds : OrgStat(p)
                    \/ \E p \in PassIds : OrgTarget(p)
                    \/ \E p \in PassIds : OrgRename(p)
                    \/ \E p \in PassIds : OrgSymlink(p)

SpecOrganizeBoth == InitOrganize /\ [][NextOrganizeBoth]_vars

(***************************************************************************)
(* Claims.                                                                 *)
(***************************************************************************)
Names(s) == [i \in 1..Len(s) |-> s[i].name]

DepsOf(services, n) == Range(ByName(services, n).depends_on)

\* the dependency relation is the chain db <- backend <- frontend
IsChain(services) == /\ Declared(services) = {"db", "backend", "frontend"}
                     /\ UniqueNames(services)
                     /\ DepsOf(services, "db") = {}
                     /\ DepsOf(services, "backend") = {"db"}
                     /\ DepsOf(services, "frontend") = {"backend"}

\* C1: for uniquely named services whose depends_on entries name declared
\* services only and form no cycle, topo_order succeeds, its result lists
\* every service exactly once and every service after all the services it
\* depends on; the chain db <- backend <- frontend resolves to exactly
\* db, backend, frontend.
C1_TopoOrderSound == (pc = "topo_done" /\ UniqueNames(cfg) /\ DepsDeclared(cfg) /\ ~HasCycle(cfg)) => (resolved.ok /\ IsTopological(cfg, resolved.order) /\ (IsChain(cfg) => resolved.order = <<"db", "backend", "frontend">>))

\* the chain of test_topo_order_basic, given in reverse order, is resolved
C1_Witness == /\ pc = "topo_done"
              /\ cfg = <<Service("frontend", <<"backend">>, "none", "absent"), Service("backend", <<"db">>, "none", "absent"), Service("db", <<>>, "none", "absent")>>
              /\ resolved = [ok |-> TRUE, order |-> <<"db", "backend", "frontend">>]

UpRunning == pc \in {"up_spawn", "up_witness", "up_health", "up_write"}

C3_DownTerminatesOnlyTracked == \A k \in termReq : k.own = "cur"

\* C4 as claimed: down requests the termination of a stored id exactly when
\* the process table it read lists a process with that id whose start time
\* equals the recorded start_time.
C4_KillIffWitnessEqual == \A i \in 1..Len(downLog) : downLog[i].req <=> (/\ downLog[i].seen.live = "run"
                                                                          /\ downLog[i].rs.start_time # None
                                                                          /\ downLog[i].rs.start_time = Some(downLog[i].seen.st))

\* C4 as amended: down requests the termination of a stored id exactly when
\* the process table it read lists a process with that id and the entry
\* either records no start_time or records the start time of that process;
\* otherwise it does nothing to that id.
C4_KillIffWitnessEqualOrAbsent == /\ \A i \in 1..Len(downLog) : downLog[i].req <=> (/\ downLog[i].seen.live = "run"
                                                                                     /\ \/ downLog[i].rs.start_time = None
                                                                                        \/ downLog[i].rs.start_time = Some(downLog[i].seen.st))
                                  /\ \A k \in termReq : \E i \in 1..Len(downLog) : downLog[i].req /\ downLog[i].rs.pid = k.pid

\* down has visited an entry whose id is held by a process with another
\* start time and left it alone, and an entry without start_time whose id
\* is live and asked for its termination
C4_Witness == /\ \E i \in 1..Len(downLog) : /\ downLog[i].rs.start_time # None
                                            /\ downLog[i].seen.live = "run"
                                            /\ downLog[i].rs.start_time # Some(downLog[i].seen.st)
                                            /\ ~downLog[i].req
              /\ \E i \in 1..Len(downLog) : /\ downLog[i].rs.start_time = None
                                            /\ downLog[i].seen.live = "run"
                                            /\ downLog[i].req

\* C5: for every stored entry with a recorded start_time, status reports
\* alive = true exactly when the process table lists a process with the
\* stored id whose start time is the recorded one.
C5_StatusAliveIffWitness == (pc = "done" /\ result.op = "status" /\ result.ok) => (/\ Len(result.report) = Len(file.services)
                                                                                   /\ \A i \in 1..Len(file.services) : file.services[i].start_time # None => (result.report[i][3] <=> (/\ snap[file.services[i].pid].live = "run"
                                                                                                                                                                                       /\ file.services[i].start_time = Some(snap[file.services[i].pid].st))))

\* status has reported dead an entry whose id is held by a process with
\* another start time, and alive an entry whose process is still there
C5_Witness == /\ pc = "done"
              /\ result.op = "status"
              /\ \E i \in 1..Len(file.services) : /\ file.services[i].start_time # None
                                                  /\ snap[file.services[i].pid].live = "run"
                                                  /\ file.services[i].start_time # Some(snap[file.services[i].pid].st)
                                                  /\ ~result.report[i][3]
              /\ \E i \in 1..Len(file.services) : /\ file.services[i].start_time # None
                                                  /\ result.report[i][3]

\* C6: every RunningService returned by spawn_service has a start_time,
\* and it is the start time the operating system gave the spawned process,
\* whenever that process exits.
C6_StartTimeRecorded == \A i \in 1..Len(running) : running[i].start_time = Some(spawnLog[i].st)

UpDone == pc = "done" /\ result.op = "up"

\* C7: when every spawn succeeds and the state file is written, up has
\* spawned every configured service exactly once, in the resolved order,
\* has written the state file once, after the last service and not before,
\* with one RunningService per service in start order, and returns the
\* State it wrote.
C7_UpSpawnsAllThenWritesOnce == /\ UpRunning => (writes = 0 /\ file = fileAtStart)
                                /\ UpDone => (result.ok \/ result.err \in {"cycle", "spawn", "write"})
                                /\ (UpDone /\ result.ok) => (/\ Names(spawnLog) = resolved.order
                                                             /\ Len(spawnLog) = Len(cfg)
                                                             /\ \A n \in Declared(cfg) : Count(Names(spawnLog), n) = 1
                                                             /\ writes = 1
                                                             /\ Names(running) = resolved.order
                                                             /\ \A i \in 1..Len(running) : running[i].pid = spawnLog[i].pid
                                                             /\ file = StateFile(running)
                                                             /\ result.state = file.services)

\* up has succeeded on three services over an earlier state file
C7_Witness == /\ UpDone
              /\ result.ok
              /\ Len(result.state) = 3
              /\ fileAtStart = LegacyFile
              /\ file = StateFile(result.state)

\* C8: when the spawn of a service fails, up returns an error, no later
\* service is spawned, the services spawned before it are not terminated,
\* and the state file is left as it was (its previous content or absence).
C8_SpawnFailureAborts == (result.op = "up" /\ result.err = "spawn") => (/\ pc = "done"
                                                                        /\ todo # <<>>
                                                                        /\ Names(spawnLog) \o todo = resolved.order
                                                                        /\ Names(running) = Names(spawnLog)
                                                                        /\ termReq = {}
                                                                        /\ writes = 0
                                                                        /\ file = fileAtStart)

\* the second service names a working directory that does not exist: up has
\* failed, the first service is still running, the earlier file is in place
C8_Witness == /\ pc = "done"
              /\ result.err = "spawn"
              /\ Len(spawnLog) = 1
              /\ ByName(cfg, Head(todo)).cwd = "missing"
              /\ proc[spawnLog[1].pid].live = "run"
              /\ proc[spawnLog[1].pid].st = spawnLog[1].st
              /\ file = LegacyFile

\* C9: a health check that ends TimedOut does not abort up: the service is
\* recorded in the accumulated state, the later services are spawned, and
\* up succeeds with the full State unless a spawn or the write fails.
C9_TimedOutIsNotFatal == /\ \A n \in timedOut : n \in Range(Names(running))
                         /\ (UpDone /\ result.err \notin {"cycle", "spawn"}) => (/\ Names(spawnLog) = resolved.order
                                                                                 /\ Names(running) = resolved.order
                                                                                 /\ result.ok \/ result.err = "write")
                         /\ (UpDone /\ result.ok) => Names(result.state) = resolved.order

\* the check of db timed out; backend was spawned after it and up succeeded
C9_Witness == /\ UpDone
              /\ result.ok
              /\ "db" \in timedOut
              /\ Names(result.state) = <<"db", "backend">>

InFlight == {n \in Range(Names(spawnLog)) : n \notin Range(Names(running))}

\* C10: during up at most one service is being spawned or health-checked,
\* the services are started in the resolved order, and a service is
\* spawned only after every service it depends on has been spawned and,
\* where that one declares a health check, after that check has finished.
C10_OneAtATimeInOrder == (UpRunning \/ UpDone) => (/\ Cardinality(InFlight) <= 1
                                                   /\ pc \in {"up_spawn", "up_write", "done"} => InFlight = {}
                                                   /\ pc \in {"up_witness", "up_health"} => InFlight = {cur.name}
                                                   /\ \A i \in 1..Len(spawnLog) : spawnLog[i].name = resolved.order[i]
                                                   /\ \A i \in 1..Len(spawnLog) : \A d \in DepsOf(cfg, spawnLog[i].name) : /\ \E j \in 1..(i - 1) : spawnLog[j].name = d
                                                                                                                           /\ d \in Range(Names(running))
                                                                                                                           /\ ByName(cfg, d).health_check # "absent" => d \in hcDone)

\* backend, which depends on db, is being spawned after the health check
\* of db has ended TimedOut
C10_Witness == /\ pc = "up_witness"
               /\ cur.name = "backend"
               /\ "db" \in DepsOf(cfg, "backend")
               /\ "db" \in timedOut

DownDone == pc = "done" /\ result.op = "down"

\* C11: down on a state path where no file exists returns success and does
\* nothing: it visits no entry, asks for the termination of no process, and
\* no file exists at the path afterwards.
C11_DownAbsentIsNoOp == (DownDone /\ fileAtStart.kind = "absent") => (/\ result = DownOk
                                                                      /\ downLog = <<>>
                                                                      /\ termReq = {}
                                                                      /\ file = AbsentFile)

\* down has returned on a path without a file while a process was running
C11_Witness == /\ DownDone
               /\ fileAtStart.kind = "absent"
               /\ result.ok
               /\ \E p \in Pids : proc[p].live = "run"

\* C12: after down returns success for a state file that existed and
\* parsed, no file exists at the state path, however many of the stored
\* processes were still alive.
C12_DownRemovesStateFile == (DownDone /\ result.ok /\ fileAtStart.kind = "state") => file = AbsentFile

\* C13: when the state file exists but does not parse as a State, down and
\* status both return the error of read_state; down then visits no entry,
\* asks for the termination of no process and leaves the file in place.
C13_CorruptStateIsFatal == (pc = "done" /\ fileAtStart.kind = "corrupt") => (/\ result.op = "down" => (/\ result = DownErr
                                                                                                        /\ downLog = <<>>
                                                                                                        /\ termReq = {}
                                                                                                        /\ file = fileAtStart)
                                                                             /\ result.op = "status" => (result = StatusErr /\ file = fileAtStart))

\* down has failed on an unparseable state file while a process was running
C13_Witness == /\ DownDone
               /\ fileAtStart = CorruptFile
               /\ ~result.ok
               /\ file = CorruptFile
               /\ \E p \in Pids : proc[p].live = "run"

StatusDone == pc = "done" /\ result.op = "status"

\* C14: status on a path without a file returns an empty report without
\* error; on a present state it returns exactly one (name, pid, alive)
\* entry per stored RunningService, in the stored order, with the stored
\* name and pid.
C14_StatusReportsEveryEntry == StatusDone => (/\ fileAtStart.kind = "absent" => result = StatusOk(<<>>)
                                              /\ fileAtStart.kind = "state" => (/\ result.ok
                                                                                /\ Len(result.report) = Len(fileAtStart.services)
                                                                                /\ \A i \in 1..Len(fileAtStart.services) : /\ result.report[i][1] = fileAtStart.services[i].name
                                                                                                                           /\ result.report[i][2] = fileAtStart.services[i].pid
                                                                                                                           /\ result.report[i][3] \in BOOLEAN))

\* status has reported the two stored services in the stored order, one of
\* them no longer alive
C14_Witness == /\ StatusDone
               /\ Len(fileAtStart.services) = 2
               /\ Len(result.report) = 2
               /\ result.report[1][1] = fileAtStart.services[1].name
               /\ result.report[2][1] = fileAtStart.services[2].name
               /\ result.report[1][1] # result.report[2][1]
               /\ \E i \in 1..2 : ~result.report[i][3]

\* C15: a state file whose entries have no start_time is read without
\* error, and for such an entry status reports alive = true exactly when
\* the process table lists some process with the stored id.
C15_LegacyEntryAliveByPid == (StatusDone /\ fileAtStart.kind = "state") => (/\ result.ok
                                                                            /\ Len(result.report) = Len(fileAtStart.services)
                                                                            /\ \A i \in 1..Len(fileAtStart.services) : fileAtStart.services[i].start_time = None => (result.report[i][3] <=> snap[fileAtStart.services[i].pid].live = "run"))

\* status has reported the entry of a file written without start_time
\* alive while its id is held by a process started later
C15_Witness == /\ StatusDone
               /\ fileAtStart = LegacyFile
               /\ result.report[1][3]
               /\ snap[1].st = 2

\* C16: write_state followed by read_state on the same path returns a
\* State equal to the one written: the same services in the same order
\* with the same name, pid, start_time (present or absent) and log paths.
C16_WriteReadRoundTrip == (pc = "st_done" /\ writes = 1) => (result.ok /\ result.state = Some(running))

\* a State of two services, one with and one without start_time, has been
\* written and read back
C16_Witness == /\ pc = "st_done"
               /\ writes = 1
               /\ Len(running) = 2
               /\ running[1].start_time = None
               /\ running[2].start_time # None
               /\ result.state = Some(running)

WaitDone == pc = "wr_done"

\* C17: one attempt succeeds exactly in these cases: kind none, always;
\* kind http, the GET gets a response whose status s satisfies
\* 200 <= s < 400; kind tcp, the connection to the configured port is
\* established within the per-attempt timeout; kind command, the configured
\* non-empty command exits with status 0.  In every other case it fails.
C17_AttemptSucceedsExactly == made >= 1 => (last.ok <=> \/ hcheck.kind = "none"
                                                        \/ /\ hcheck.kind = "http"
                                                           /\ last.ans.reached
                                                           /\ last.ans.took < PerAttemptTimeout(hcheck)
                                                           /\ 200 <= last.ans.code
                                                           /\ last.ans.code < 400
                                                        \/ /\ hcheck.kind = "tcp"
                                                           /\ last.ans.reached
                                                           /\ last.ans.took < PerAttemptTimeout(hcheck)
                                                        \/ /\ hcheck.kind = "command"
                                                           /\ hcheck.command # None
                                                           /\ hcheck.command # Some("")
                                                           /\ last.ans.reached
                                                           /\ last.ans.code = 0)

\* an http attempt has failed on a response with status 400 that arrived
\* within the timeout
C17_Witness == /\ made >= 1
               /\ hcheck.kind = "http"
               /\ last.ans.reached
               /\ last.ans.code = 400
               /\ last.ans.took < PerAttemptTimeout(hcheck)
               /\ ~last.ok

\* C18: wait_ready makes at most retries attempts; it returns Ready at the
\* first attempt that succeeds and makes no attempt after it; when no
\* attempt succeeds within the allowed attempts it returns failure.
C18_AtMostRetriesFirstSuccess == /\ made <= Retries(hcheck)
                                 /\ attempts <= made
                                 /\ (made >= 1 /\ last.ok) => (WaitDone /\ result = WaitOk)
                                 /\ WaitDone => (result = WaitOk <=> (made >= 1 /\ last.ok))
                                 /\ WaitDone => result \in {WaitOk, WaitErr}

\* the second of ten allowed attempts has succeeded and wait_ready has
\* returned Ready
C18_Witness == /\ WaitDone
               /\ result = WaitOk
               /\ made = 2
               /\ Retries(hcheck) = DefaultRetries

\* C19: when the attempts keep failing and more than 2 x timeout_ms has
\* elapsed since the first attempt began, wait_ready starts no further
\* attempt and returns failure, even though fewer than retries attempts
\* were made.
C19_CeilingStopsRetries == /\ made >= 2 => last.begin <= 2 * UnwrapOr(hcheck.timeout_ms, 5000)
                           /\ (made >= 1 /\ ~last.ok /\ elapsed > 2 * UnwrapOr(hcheck.timeout_ms, 5000)) => (WaitDone /\ result = WaitErr)

\* wait_ready has given up after two of ten allowed attempts, the ceiling
\* of 800 ms being passed
C19_Witness == /\ WaitDone
               /\ result = WaitErr
               /\ hcheck.timeout_ms = Some(400)
               /\ made = 2
               /\ Retries(hcheck) = DefaultRetries
               /\ elapsed > 800

\* C20: for every kind of health check, wait_ready returns no later than
\* 2 x timeout_ms after its first attempt began.
C20_ReturnsWithinCeiling == WaitDone => elapsed <= 2 * UnwrapOr(hcheck.timeout_ms, 5000)

\* C21: for a health check of kind none, wait_ready returns Ready at once,
\* for every value of retries (0 included) and of timeout_ms.
C21_NoneIsReadyAtOnce == (WaitDone /\ hcheck.kind = "none") => (result = WaitOk /\ elapsed = 0)

\* C22: when a health check omits timeout_ms, 5000 ms is used everywhere:
\* an http response and a tcp connection count when they come within
\* 5000 ms, and wait_ready gives up once more than 10000 ms have elapsed;
\* when it omits retries, 10 attempts are allowed.
C22_DefaultsAre5000And10 == /\ (made >= 1 /\ hcheck.timeout_ms = None /\ hcheck.kind = "http" /\ last.ans.reached /\ last.ans.code = 200) => (last.ok <=> last.ans.took < 5000)
                            /\ (made >= 1 /\ hcheck.timeout_ms = None /\ hcheck.kind = "tcp" /\ last.ans.reached) => (last.ok <=> last.ans.took < 5000)
                            /\ (made >= 1 /\ hcheck.timeout_ms = None /\ ~last.ok /\ elapsed > 10000) => WaitDone
                            /\ (pc = "wr_loop" /\ hcheck.timeout_ms = None) => elapsed <= 10000
                            /\ hcheck.retries = None => made <= 10
                            /\ (WaitDone /\ hcheck.retries = None /\ result = WaitErr /\ elapsed <= 2 * Timeout(hcheck)) => made = 10

EmptyCommand == hcheck.kind = "command" /\ (hcheck.command = None \/ hcheck.command = Some(""))

\* C23: for a health check of kind command whose command is empty or
\* missing, the check is never Ready, and wait_ready returns the failure of
\* the first attempt without another attempt and without a retry delay.
C23_EmptyCommandFailsAtOnce == (WaitDone /\ EmptyCommand) => (result = WaitErr /\ made <= 1 /\ elapsed = 0)

\* C24: the working directory of every spawned service process is base_dir
\* joined with the service's cwd override, and base_dir itself for a
\* service without override, whatever the working directory of the control
\* process is.
C24_ChildRunsUnderBaseDir == \A i \in 1..Len(spawnLog) : spawnLog[i].dir = (IF ByName(cfg, spawnLog[i].name).cwd = "none" THEN BaseDir ELSE Append(BaseDir, ByName(cfg, spawnLog[i].name).cwd))

\* C25: validate_config fails exactly when two services of the config
\* share a name; the up command loads and validates the config before the
\* orchestrator's up, so an unreadable or unparseable config or a repeated
\* name ends the command with an error, no process spawned and the state
\* file left as it was.
C25_ConfigErrorsBeforeSpawn == /\ pc # "idle" => (result.err = "duplicate" <=> ~UniqueNames(cfg))
                               /\ UpRunning => UniqueNames(cfg)
                               /\ result.err \in {"read", "parse", "duplicate"} => (/\ pc = "done"
                                                                                    /\ ~result.ok
                                                                                    /\ spawnLog = <<>>
                                                                                    /\ running = <<>>
                                                                                    /\ \A p \in Pids : proc[p].own # "new"
                                                                                    /\ writes = 0
                                                                                    /\ file = fileAtStart)

\* the up command has refused the services db, backend, db, leaving the
\* earlier state file and its process in place
C25_Witness == /\ pc = "done"
               /\ result = UpErr("duplicate")
               /\ Names(cfg) = <<"db", "backend", "db">>
               /\ file = LegacyFile
               /\ proc[1].live = "run"

NoDeps(services, n) == ByName(services, n).depends_on = <<>>

\* C26: topo_order breaks ties in input order: the services without
\* dependencies appear in the result in the order they have in the input
\* list, so that the same list always resolves to the same order.
C26_TiesInInputOrder == (pc = "topo_done" /\ resolved.ok) => SelectSeq(resolved.order, LAMBDA n : NoDeps(cfg, n)) = SelectSeq(NameSeq(cfg), LAMBDA n : NoDeps(cfg, n))

IsPrefix(s, t) == Len(s) <= Len(t) /\ \A i \in 1..Len(s) : s[i] = t[i]

\* C27: the logs of a service are opened in create-or-append mode: across
\* any sequence of up invocations, no step truncates or overwrites what a
\* log already holds; a log is only extended.
C27_LogsOnlyExtended == [][\A n \in ServiceNames : IsPrefix(logs[n], logs'[n])]_vars

\* db has been spawned again while its log held a line written between two
\* invocations, and the line is still there
C27_Witness == /\ pc = "up_witness"
               /\ cur.name = "db"
               /\ Len(logs["db"]) >= 1
               /\ logs["db"][1] = "idle"

\* C28: within one up the health check is run at most once per service,
\* only for a service that declares one, and only after that service was
\* spawned; a check that has ended (Ready or TimedOut) is not run again:
\* its service is recorded and up goes on.
C28_HealthCheckOncePerService == /\ pc = "up_health" => (/\ cur.name \notin hcDone
                                                         /\ ByName(cfg, cur.name).health_check # "absent"
                                                         /\ spawnLog # <<>>
                                                         /\ spawnLog[Len(spawnLog)].name = cur.name)
                                 /\ \A n \in hcDone : /\ ByName(cfg, n).health_check # "absent"
                                                      /\ Count(Names(spawnLog), n) = 1
                                                      /\ n \in Range(Names(running))
                                 /\ timedOut \subseteq hcDone

\* up has checked db, which declares a health check, and has started
\* backend, which declares none, without a check
C28_Witness == /\ UpDone
               /\ result.ok
               /\ hcDone = {"db"}
               /\ Names(running) = <<"db", "backend">>
               /\ ByName(cfg, "backend").health_check = "absent"

\* C29: status is read-only: a status step terminates no process and
\* leaves the state file as it is; the state file changes only when up
\* writes it or down removes it.
C29_StatusIsReadOnly == [][/\ (pc = "idle" /\ result'.op = "status") => (file' = file /\ proc' = proc /\ termReq' = termReq)
                           /\ file' # file => (pc = "up_write" \/ (pc = "down_kill" /\ file' = AbsentFile))]_vars

\* status has reported a stored entry dead, and the entry is still in the
\* state file
C29_Witness == /\ StatusDone
               /\ file.kind = "state"
               /\ file = fileAtStart
               /\ \E i \in 1..Len(file.services) : ~result.report[i][3]

\* the threads that a stop_watching call has stopped
StoppedWatchers == {t \in Threads : watchers[t].stopped}

\* of the threads inside the loop at most one has not been stopped, and a
\* start_watching that found the flag set spawned nothing and left the
\* handle of that thread in place
OneUnstoppedWatcher == /\ Cardinality(InLoop \ StoppedWatchers) <= 1
                       /\ lastCall = "start_noop" => (handle # None /\ InLoop \ StoppedWatchers = {handle[1]})

\* C30: for one TrayLogic at most one watcher thread executes the polling
\* loop: start_watching while already watching spawns no thread and keeps
\* the handle, and a thread stopped by stop_watching never goes on to
\* another round of organize_once next to a watcher started afterwards.
C30_AtMostOneWatcher == /\ OneUnstoppedWatcher
                        /\ \A t \in StoppedWatchers : ~watchers[t].survived

OldProcs == {p \in Pids : proc[p].live = "run" /\ proc[p].own = "old"}

C36_DownWitness == /\ DownDone
                   /\ OldProcs # {}
                   /\ \E k \in termReq : k.own = "cur"

\* the app's watcher threads that internal_stop_service has stopped
StoppedSvcThreads == {t \in SvcThreadIds : svcThreads[t].stopped}

\* C31: a watcher thread stopped by internal_stop_service keeps seeing its
\* own flag false: no check it makes after the stop lets it go on to an
\* organize pass, also when internal_start_service has run again in the
\* meantime, and it terminates.
C31_StoppedWatcherTerminates == /\ [](\A t \in StoppedSvcThreads : ~flags[svcThreads[t].flag] /\ ~svcThreads[t].survived)
                                /\ \A t \in SvcThreadIds : (svcThreads[t].stopped /\ svcThreads[t].at # "done") ~> (svcThreads[t].at = "done")

\* a stopped watcher is still asleep while the watcher started after it is
\* in a pass
C31_Witness == \E t, u \in SvcThreadIds : /\ svcThreads[t].stopped
                                          /\ svcThreads[t].at = "sleep"
                                          /\ ~svcThreads[u].stopped
                                          /\ svcThreads[u].at = "organize"
                                          /\ watcher_flag = Some(svcThreads[u].flag)

\* the watcher threads inside the loop whose flag is true
LiveWatchers == {t \in SvcInLoop : flags[svcThreads[t].flag]}

Started == svcHist.lastInternal \in {"start_spawn", "start_noop"}

\* C38: after any sequence of internal_start_service and
\* internal_stop_service calls at most one watcher thread holds a flag that
\* is true; while the service runs that thread is the one of the stored
\* handle and flag, also after a start that found it running (which
\* spawned nothing); and get_service_status reports running exactly when
\* the last of those calls was a start.
C38_OneLiveWatcher == /\ Cardinality(LiveWatchers) <= 1
                      /\ watcher_flag # None <=> Started
                      /\ Started => (/\ watcher_handle # None
                                     /\ LiveWatchers = {watcher_handle[1]}
                                     /\ svcThreads[watcher_handle[1]].flag = watcher_flag[1]
                                     /\ service_start_time # None)
                      /\ ~Started => (LiveWatchers = {} /\ watcher_handle = None /\ service_start_time = None)
                      /\ svcHist.status # None => (svcHist.status[1].running <=> svcHist.status[1].after \in {"start_spawn", "start_noop"})

\* the service was started twice in a row after a stop whose thread is still
\* asleep, and get_service_status has reported running
C38_Witness == /\ svcHist.lastInternal = "start_noop"
               /\ svcHist.status = Some([running |-> TRUE, after |-> "start_noop"])
               /\ \E t \in StoppedSvcThreads : svcThreads[t].at = "sleep"

\* no rule command is in progress and the last one succeeded
RuleCommandDone == rc.at = "idle" /\ svcHist.lastRule.op # "none" /\ svcHist.lastRule.ok

\* after a successful rule command the watcher of the running service polls
\* with the rule list as the command left it
WatcherUsesCurrentRules == (RuleCommandDone /\ watcher_flag # None) => svcThreads[watcher_handle[1]].cfg = rules

\* C37: a rule command that finds the service running stops and starts it,
\* so that the watcher polling afterwards has the updated rule list; and a
\* rule command does not leave the service running when the last request
\* was to stop it (or none was made), also when that request came while the
\* command was in progress.
C37_RuleChangeRestartsOnlyRunning == /\ WatcherUsesCurrentRules
                                     /\ (rc.at = "idle" /\ service_enabled # Some(TRUE)) => watcher_flag = None

UniqueRuleNames(rs) == \A i, j \in 1..Len(rs) : rs[i].name = rs[j].name => i = j

\* C32: after any sequence of rule commands no two rules of the config have
\* the same name, and a create_rule that was refused because the name
\* exists has left a list where that name occurs.
C32_RuleNamesUnique == /\ UniqueRuleNames(rules)
                       /\ (svcHist.lastRule.op = "create" /\ ~svcHist.lastRule.ok /\ rc.at = "idle") => svcHist.lastRule.arg[1] \in {rules[i].name : i \in 1..Len(rules)}

\* rs2 holds exactly the rules of rs, each once (rs has no repeated name)
SameRules(rs, rs2) == /\ Len(rs2) = Len(rs)
                      /\ \A i \in 1..Len(rs) : \E j \in 1..Len(rs2) : rs2[j] = rs[i]

\* the names of rule_names that some rule of rs has, each at its first place
NamedOnce(rs, names) == SelectSeq([k \in 1..Len(names) |-> IF (\E i \in 1..Len(rs) : rs[i].name = names[k]) /\ (\A j \in 1..(k - 1) : names[j] # names[k]) THEN names[k] ELSE ""], LAMBDA n : n # "")

\* C33: a reorder_rules step on a list without repeated names, whatever
\* rule_names is, leaves exactly the rules held before, each once: first
\* the rules named in rule_names in the given order, then the others in
\* their previous order.
C33_ReorderOnlyPermutes == [][(rc.at = "idle" /\ svcHist'.lastRule.op = "reorder" /\ UniqueRuleNames(rules)) => LET names == svcHist'.lastRule.arg
                                                                                                                    first == NamedOnce(rules, names) IN
                                                                                                                  /\ SameRules(rules, rules')
                                                                                                                  /\ \A k \in 1..Len(first) : k <= Len(rules') /\ rules'[k].name = first[k]
                                                                                                                  /\ SelectSeq(rules', LAMBDA r : r.name \notin Range(names)) = SelectSeq(rules, LAMBDA r : r.name \notin Range(names))]_vars

\* C34: no rename of a pass replaces an entry that was at its target, with
\* the watcher's pass and a manual pass running at the same time.
C34_NothingOverwritten == \A m \in moved : m.over = None

\* C39: in one pass no file is moved twice; a move follows a rule that is
\* enabled and matches, with no enabled matching rule before it in the
\* list; and no step moves or changes a file that no enabled rule matches.
C39_MovedOnceByFirstRule == /\ [](\A m \in moved : /\ \A m2 \in moved : m2.what = m.what => m2 = m
                                                   /\ rules[m.rule].enabled # Some(FALSE)
                                                   /\ matches_rule(m.from.name, m.what, rules[m.rule])
                                                   /\ \A j \in 1..(m.rule - 1) : rules[j].enabled = Some(FALSE) \/ ~matches_rule(m.from.name, m.what, rules[j]))
                            /\ [][\A q \in DOMAIN fsys : (fsys[q].kind = "file" /\ \A i \in 1..Len(rules) : rules[i].enabled = Some(FALSE) \/ ~matches_rule(q.name, fsys[q], rules[i])) => (q \in DOMAIN fsys' /\ fsys'[q] = fsys[q])]_vars

====
